---- MODULE Spec2Model ----
(***************************************************************************)
(* Model of the social-media MCP server: the multi-platform post dispatch  *)
(* of SocialMediaMCPServer.create_post, schedule_posts, the in-memory      *)
(* content calendar of manage_calendar, the read-only tools, and the       *)
(* functions of utils.py called on their own (SpecUtils), the re-encoding  *)
(* loop of optimize_image (SpecImage) and the registration of the clients  *)
(* by initialize (SpecInitialize)                                          *)
(* (src/social-media-mcp/src/social_media_mcp/server.py, models.py,        *)
(* utils.py, platforms/).                                                  *)
(*                                                                         *)
(* Every tool handler is one action: the server awaits each step of a      *)
(* handler in sequence and the calendar has no other writer.               *)
(*                                                                         *)
(* Modelling conventions                                                   *)
(*  - a Python exception message is a tuple of strings (its parts), and    *)
(*    None in the place of a string is the empty tuple;                    *)
(*  - a datetime is [hours, tzinfo]: hours since a fixed midnight, and     *)
(*    tzinfo "UTC" (aware) or "None" (naive);                              *)
(*  - an ISO-8601 string is [kind, hours, offset]: kind "datetime" for a   *)
(*    parsable string, "garbage" for a string fromisoformat rejects,       *)
(*    "empty" for "", "None" for an absent argument;                       *)
(*  - uuid.uuid4() is a source of fresh tokens: the n-th token issued is   *)
(*    the number n (uuids counts the tokens issued so far).                *)
(***************************************************************************)
EXTENDS Integers, Sequences, FiniteSets, TLC

VARIABLES
    platforms,        \* self.platforms: the names with a registered client
    scheduled_posts,  \* self.scheduled_posts: the content calendar (a list)
    uuids,            \* number of uuid4 tokens issued so far
    invoked,          \* ids of the Posts ever handed to a platform client
    call,             \* the last tool invocation (its arguments)
    before,           \* the calendar when the last invocation started
    dispatched,       \* the create_post calls of the last invocation to clients, in order
    response          \* what the last invocation returned, or what it raised

vars == <<platforms, scheduled_posts, uuids, invoked, call, before, dispatched, response>>

----------------------------------------------------------------------------
(* Bounds of the model *)

\* longest platforms list of a request
MaxPlatforms == 2
\* uuid4 tokens the model issues before it stops creating posts
MaxUuids == 4
\* longest post_ids list of a manage_calendar request
MaxPostIds == 2
\* longest posts list of a schedule_posts request
MaxPosts == 2
\* most words of a text handed to generate_hashtags on its own
MaxWords == 3
\* posts in one schedule_content_calendar call
MaxCalendarPosts == 12

----------------------------------------------------------------------------
(* Values *)

\* models.py PlatformType: the names a Post accepts in its platforms list
PlatformType == {"twitter", "linkedin", "instagram", "facebook", "tiktok"}

\* server.py initialize: the names a client can be registered under
KnownPlatforms == {"twitter", "linkedin", "instagram", "facebook"}

\* the platform names requests carry in this model; "nonexistent" is no PlatformType
RequestNames == {"twitter", "linkedin", "nonexistent"}

NoError == <<>>

\* datetime values
DateTime(h, tz) == [hours |-> h, tzinfo |-> tz]

\* ISO-8601 strings and absent arguments
NoneStr == [kind |-> "None", hours |-> 0, offset |-> ""]
EmptyStr == [kind |-> "empty", hours |-> 0, offset |-> ""]
GarbageStr == [kind |-> "garbage", hours |-> 0, offset |-> ""]
IsoStr(h, off) == [kind |-> "datetime", hours |-> h, offset |-> off]

\* Python truthiness of an optional string: None and "" are falsy
Truthy(s) == s.kind \notin {"None", "empty"}

\* datetime.isoformat(): an aware datetime prints its UTC offset
isoformat(d) == IsoStr(d.hours, IF d.tzinfo = "UTC" THEN "+00:00" ELSE "")

\* datetime.fromisoformat(s) parses s; CanParse(s) is FALSE where it raises ValueError
CanParse(s) == s.kind = "datetime"
fromisoformat(s) == DateTime(s.hours, IF s.offset = "+00:00" THEN "UTC" ELSE "None")

\* a <= b on datetimes; comparing a naive with an aware datetime raises TypeError
Comparable(a, b) == a.tzinfo = b.tzinfo
DateTimeLeq(a, b) == a.hours <= b.hours

----------------------------------------------------------------------------
(* utils.py *)

\* a text is a sequence of tokens; a token is a word as written, its lower-cased
\* form, its length, and whether it is written with a leading '#'
Tok(w, l, n, t) == [word |-> w, lower |-> l, len |-> n, tag |-> t]

\* "hi"
TextHi == << Tok("hi", "hi", 2, FALSE) >>
\* "#Launch product product news"
TextLaunch == << Tok("Launch", "launch", 6, TRUE), Tok("product", "product", 7, FALSE),
                 Tok("product", "product", 7, FALSE), Tok("news", "news", 4, FALSE) >>

\* a single word of 281 letters
TextLong == << Tok("a281", "a281", 281, FALSE) >>

\* len(content): the letters of the words, the '#' of the tags, single spaces between
RECURSIVE Chars(_)
Chars(content) ==
    IF content = <<>> THEN 0
    ELSE LET last == content[Len(content)]
             front == SubSeq(content, 1, Len(content) - 1)
         IN  Chars(front) + (IF front = <<>> THEN 0 ELSE 1)
               + last.len + (IF last.tag THEN 1 ELSE 0)

\* s[:n], as Python slices (a negative n drops the last -n elements)
Take(s, n) ==
    LET k == IF n >= 0 THEN (IF n < Len(s) THEN n ELSE Len(s))
                       ELSE (IF Len(s) + n > 0 THEN Len(s) + n ELSE 0)
    IN  SubSeq(s, 1, k)

Min(a, b) == IF a <= b THEN a ELSE b

\* list(dict.fromkeys(s)): the first occurrence of each element, in order
RECURSIVE Dedup(_)
Dedup(s) ==
    IF s = <<>> THEN <<>>
    ELSE LET front == Dedup(SubSeq(s, 1, Len(s) - 1))
             x == s[Len(s)]
         IN  IF \E i \in 1..Len(front) : front[i] = x THEN front ELSE Append(front, x)

Occurrences(s, x) == Cardinality({i \in 1..Len(s) : s[i] = x})

\* Counter(words).most_common(): by descending count, equal counts in order of
\* first occurrence; keys are the distinct words still to place
RECURSIVE MostCommon(_, _)
MostCommon(words, keys) ==
    IF keys = <<>> THEN <<>>
    ELSE LET best == CHOOSE i \in 1..Len(keys) :
                        /\ \A j \in 1..Len(keys) :
                              Occurrences(words, keys[j]) <= Occurrences(words, keys[i])
                        /\ \A j \in 1..(i - 1) :
                              Occurrences(words, keys[j]) < Occurrences(words, keys[i])
             rest == [j \in 1..(Len(keys) - 1) |-> IF j < best THEN keys[j] ELSE keys[j + 1]]
         IN  <<keys[best]>> \o MostCommon(words, rest)

\* re.findall(r'#\w+', content), each without its '#'
ExistingHashtags(content) ==
    LET tagged == SelectSeq(content, LAMBDA t : t.tag)
    IN  [i \in 1..Len(tagged) |-> tagged[i].word]

\* re.findall(r'\b\w{4,}\b', content.lower())
LongWords(content) ==
    LET long == SelectSeq(content, LAMBDA t : t.len >= 4)
    IN  [i \in 1..Len(long) |-> long[i].lower]

generate_hashtags_NoDedup(content, platform, max_count) ==
    LET hashtags == ExistingHashtags(content)
        words == LongWords(content)
        common_words == Take(MostCommon(words, Dedup(words)), 5)
        cap == CASE platform = "instagram" -> Min(max_count, 30)
                 [] platform = "twitter" -> Min(max_count, 3)
                 [] platform = "linkedin" -> Min(max_count, 5)
                 [] OTHER -> max_count
        extended == CASE platform = "instagram" -> hashtags \o common_words
                      [] platform = "twitter" -> hashtags \o Take(common_words, 2)
                      [] platform = "linkedin" -> hashtags \o Take(common_words, 3)
                      [] OTHER -> hashtags
    IN  Take(extended, cap)

generate_hashtags(content, platform, max_count) ==
    LET hashtags == ExistingHashtags(content)
        words == LongWords(content)
        common_words == Take(MostCommon(words, Dedup(words)), 5)
        cap == CASE platform = "instagram" -> Min(max_count, 30)
                 [] platform = "twitter" -> Min(max_count, 3)
                 [] platform = "linkedin" -> Min(max_count, 5)
                 [] OTHER -> max_count
        extended == CASE platform = "instagram" -> hashtags \o common_words
                      [] platform = "twitter" -> hashtags \o Take(common_words, 2)
                      [] platform = "linkedin" -> hashtags \o Take(common_words, 3)
                      [] OTHER -> hashtags
    IN  Take(Dedup(extended), cap)

\* the default max_count of generate_hashtags
DefaultMaxCount == 10

\* best_times of find_optimal_posting_time: hours of the day, UTC
best_times ==
    [p \in KnownPlatforms |->
        CASE p = "twitter" -> {9, 12, 15, 17, 20}
          [] p = "instagram" -> {11, 13, 17, 19}
          [] p = "linkedin" -> {7, 10, 12, 17}
          [] p = "facebook" -> {9, 13, 15, 19}]

SetMin(S) == CHOOSE x \in S : \A y \in S : x <= y

find_optimal_posting_time_AtOrAfter(platform_list, now) ==
    LET all_times == UNION {best_times[platform_list[i]] :
                              i \in {j \in 1..Len(platform_list) :
                                        platform_list[j] \in DOMAIN best_times}}
        current_hour == now % 24
        midnight == now - current_hour
        future_times == {t \in all_times : t >= current_hour}
    IN  IF all_times = {} THEN DateTime(now + 1, "UTC")
        ELSE IF future_times # {} THEN DateTime(midnight + SetMin(future_times), "UTC")
        ELSE DateTime(midnight + 24 + SetMin(all_times), "UTC")

\* find_optimal_posting_time(platforms) called at hour `now` (an aware datetime)
find_optimal_posting_time(platform_list, now) ==
    LET all_times == UNION {best_times[platform_list[i]] :
                              i \in {j \in 1..Len(platform_list) :
                                        platform_list[j] \in DOMAIN best_times}}
        current_hour == now % 24
        midnight == now - current_hour
        future_times == {t \in all_times : t > current_hour}
    IN  IF all_times = {} THEN DateTime(now + 1, "UTC")
        ELSE IF future_times # {} THEN DateTime(midnight + SetMin(future_times), "UTC")
        ELSE DateTime(midnight + 24 + SetMin(all_times), "UTC")

\* char_limits of validate_post_content
char_limits ==
    [p \in KnownPlatforms |->
        CASE p = "twitter" -> 280
          [] p = "instagram" -> 2200
          [] p = "linkedin" -> 3000
          [] p = "facebook" -> 63206]

\* char_limits.get(platform, 5000)
DefaultLimit == 5000

\* re.search(r'#\w+', content)
HasHashtag(content) == \E i \in 1..Len(content) : content[i].tag

\* a message of validate_post_content: its words and the numbers it quotes; None
\* is the message without words
Message(words, numbers) == [words |-> words, numbers |-> numbers]
NoMessage == Message(<<>>, <<>>)

validate_post_content_AtLimit(content, platform) ==
    LET limit == IF platform \in DOMAIN char_limits THEN char_limits[platform]
                 ELSE DefaultLimit
    IN  IF Chars(content) >= limit
        THEN << FALSE, Message(<<"Content exceeds", platform, "character limit">>,
                               <<Chars(content), limit>>) >>
        ELSE IF platform = "instagram" /\ ~HasHashtag(content)
        THEN << TRUE, Message(<<"Instagram posts typically perform better with hashtags">>,
                              <<>>) >>
        ELSE << TRUE, NoMessage >>

\* validate_post_content(content, platform): the pair (valid, message)
validate_post_content(content, platform) ==
    LET limit == IF platform \in DOMAIN char_limits THEN char_limits[platform]
                 ELSE DefaultLimit
    IN  IF Chars(content) > limit
        THEN << FALSE, Message(<<"Content exceeds", platform, "character limit">>,
                               <<Chars(content), limit>>) >>
        ELSE IF platform = "instagram" /\ ~HasHashtag(content)
        THEN << TRUE, Message(<<"Instagram posts typically perform better with hashtags">>,
                              <<>>) >>
        ELSE << TRUE, NoMessage >>

\* schedule_content_calendar: the clock is read twice for every post (once for
\* replace(), once for the comparison). A clock reading is a number of minutes
\* since the model's first midnight; reading number j of a call that starts at
\* `now` is one minute later from reading number `tick` on (tick 0: the minute
\* does not change during the call)
ClockRead(now, tick, j) == IF tick # 0 /\ j >= tick THEN now + 1 ELSE now

\* start_hour, end_hour of even_spacing and peak_times of peak_times
start_hour == 9
end_hour == 20
peak_times == << 9, 12, 17, 19 >>

\* datetime.now(timezone.utc).replace(hour=hour, minute=0, second=0, microsecond=0)
\* read at `minutes`: that hour of the day of the reading, in hours
ReplaceHour(minutes, hour) == (minutes \div (24 * 60)) * 24 + hour

MoveToTomorrow_Never(scheduled_time, minutes) == scheduled_time

\* if scheduled_time < datetime.now(timezone.utc): scheduled_time += timedelta(days=1)
MoveToTomorrow(scheduled_time, minutes) ==
    IF scheduled_time * 60 < minutes THEN scheduled_time + 24 ELSE scheduled_time

even_spacing_hour_WholeInterval(i, n) ==
    start_hour + i * ((end_hour - start_hour) \div n)

\* start_hour + int(i * interval), interval = total_hours / len(posts): the
\* floor of the exact quotient (the double product truncates to it for every
\* list shorter than 539 posts)
even_spacing_hour(i, n) == start_hour + (i * (end_hour - start_hour)) \div n

\* "if i >= len(peak_times): days_offset = i // len(peak_times)"
peak_times_days(i) == IF i >= Len(peak_times) THEN i \div Len(peak_times) ELSE 0

\* the post dict after post["scheduled_time"] = scheduled_time.isoformat()
WithScheduledTime(post, hours) ==
    [post |-> post, scheduled_time |-> isoformat(DateTime(hours, "UTC"))]

\* schedule_content_calendar(posts, strategy) called at clock reading `now`; an
\* unknown strategy schedules nothing
schedule_content_calendar(posts, strategy, now, tick) ==
    LET n == Len(posts)
        slot(i, hour) ==
            MoveToTomorrow(ReplaceHour(ClockRead(now, tick, 2 * i + 1), hour),
                           ClockRead(now, tick, 2 * i + 2))
    IN  IF strategy = "even_spacing"
        THEN [k \in 1..n |->
                WithScheduledTime(posts[k], slot(k - 1, even_spacing_hour(k - 1, n)))]
        ELSE IF strategy = "peak_times"
        THEN [k \in 1..n |->
                WithScheduledTime(posts[k],
                    slot(k - 1, peak_times[((k - 1) % Len(peak_times)) + 1])
                      + 24 * peak_times_days(k - 1))]
        ELSE <<>>

\* a media entry of a request: its type and whether the file at its path is an
\* image PIL can open and encode
Media(type, readable) == [type |-> type, readable |-> readable]

\* the keys of PLATFORM_MEDIA_SPECS
PLATFORM_MEDIA_SPECS == {"twitter", "instagram", "linkedin", "facebook"}

\* optimize_image raises (Image.open fails, min() of no platform, PlatformType(p)
\* or PLATFORM_MEDIA_SPECS[...] fails), every cause relabelled by its except clause
optimize_image_raises(media, platform_list) ==
    \/ ~media.readable
    \/ platform_list = <<>>
    \/ \E i \in 1..Len(platform_list) : platform_list[i] \notin PLATFORM_MEDIA_SPECS

\* optimize_video uses the name mp, which utils.py never binds: the NameError is
\* caught by its except clause and relabelled, on every call
optimize_video_raises(media, platform_list) == TRUE

\* PLATFORM_MEDIA_SPECS[...]["image"]["max_size_mb"]
image_max_size_mb ==
    [p \in PLATFORM_MEDIA_SPECS |->
        CASE p = "twitter" -> 5
          [] p = "instagram" -> 8
          [] p = "linkedin" -> 10
          [] p = "facebook" -> 4]

\* the most restrictive size among the target platforms (utils.py 94-97)
max_size_mb(platform_list) ==
    SetMin({image_max_size_mb[platform_list[i]] : i \in 1..Len(platform_list)})

\* the re-encoding loop of optimize_image: first quality, decrement, floor
StartQuality == 85
QualityStep == 5
QualityFloor == 20

LoopBreaks_NoFloor(file_size_mb, limit, quality) == file_size_mb <= limit

\* "if file_size_mb <= max_size_mb or quality <= 20: break"
LoopBreaks(file_size_mb, limit, quality) ==
    file_size_mb <= limit \/ quality <= QualityFloor

ImageError == <<"Image optimization failed">>
VideoError == <<"Video optimization failed">>

----------------------------------------------------------------------------
(* models.py *)

\* an absent datetime (None)
NoTime == [hours |-> 0, tzinfo |-> "absent"]

\* Post: pydantic validates every entry of platforms against PlatformType
PostValid(platform_list) ==
    \A i \in 1..Len(platform_list) : platform_list[i] \in PlatformType

Post(id, text, media, hashtags, platform_list, scheduled_time) ==
    [id |-> id, text |-> text, media |-> media, hashtags |-> hashtags,
     platforms |-> platform_list, scheduled_time |-> scheduled_time]

\* ScheduledPost: status defaults to "pending"
ScheduledPost(id, post, platform, scheduled_time) ==
    [id |-> id, post |-> post, platform |-> platform,
     scheduled_time |-> scheduled_time, status |-> "pending"]

\* PostResult(...).dict(); timestamp defaults to datetime.utcnow(), a naive datetime
PostResult(success, platform, post_id, url, error, now) ==
    [success |-> success, platform |-> platform, post_id |-> post_id, url |-> url,
     error |-> error, timestamp |-> DateTime(now, "None")]

----------------------------------------------------------------------------
(* The platform clients (platforms/): opaque beyond PlatformClient.create_post.
   A call returns a successful PostResult, returns a failed PostResult, or raises. *)

Outcomes == {"ok", "fail", "raise"}

ClientFailure == <<"rate limit exceeded">>
ClientException == <<"connection reset">>

\* what the client of `platform` returns under outcome "ok" or "fail"
client_create_post(platform, post, outcome, now) ==
    IF outcome = "ok"
    THEN PostResult(TRUE, platform, <<platform, "post">>, <<platform, "url">>, NoError, now)
    ELSE PostResult(FALSE, platform, <<>>, <<>>, ClientFailure, now)

----------------------------------------------------------------------------
(* server.py: create_post *)

NotConfigured(platform) == <<"Platform", platform, "not configured">>

\* what a handler hands back: a returned payload, or the exception it raised
Return(tool, payload) == [tool |-> tool, raised |-> FALSE, error |-> NoError, payload |-> payload]
Raise(tool, error) == [tool |-> tool, raised |-> TRUE, error |-> error, payload |-> <<>>]

\* the loop state of create_post: the server's calendar and token count, the
\* results dict, and the client calls made so far
LoopState(cal, n, results, calls) ==
    [scheduled_posts |-> cal, uuids |-> n, results |-> results, dispatched |-> calls]

\* results[platform] = entry
SetItem(d, key, value) == (key :> value) @@ d

\* the else branch (server.py 391-395): the platform has no registered client
NotConfiguredStep_Skips(platform, acc) == {acc}

NotConfiguredStep(platform, acc) ==
    { LoopState(acc.scheduled_posts, acc.uuids,
                SetItem(acc.results, platform,
                        [success |-> FALSE, error |-> NotConfigured(platform)]),
                acc.dispatched) }

\* the schedule branch (server.py 369-381): a ScheduledPost with a token of its
\* own is appended to the calendar and the platform gets the acknowledgment
ScheduleStep_OnePerPost(platform, post, schedule, acc) ==
    { LoopState(IF \E k \in 1..Len(acc.scheduled_posts) :
                      acc.scheduled_posts[k].post.id = post.id
                THEN acc.scheduled_posts
                ELSE Append(acc.scheduled_posts,
                            ScheduledPost(acc.uuids + 1, post, platform,
                                          fromisoformat(schedule))),
                acc.uuids + 1,
                SetItem(acc.results, platform,
                        [success |-> TRUE, scheduled |-> TRUE, scheduled_time |-> schedule]),
                acc.dispatched) }

ScheduleStep_AlsoPosts(platform, post, schedule, acc) ==
    { LoopState(Append(acc.scheduled_posts,
                       [ScheduledPost(acc.uuids + 1, post, platform, fromisoformat(schedule))
                          EXCEPT !.status = "posted"]),
                acc.uuids + 1,
                SetItem(acc.results, platform,
                        [success |-> TRUE, scheduled |-> TRUE, scheduled_time |-> schedule]),
                Append(acc.dispatched,
                       [platform |-> platform, post |-> post.id, outcome |-> "ok"])) }

ScheduleStep_PostId(platform, post, schedule, acc) ==
    { LoopState(Append(acc.scheduled_posts,
                       ScheduledPost(post.id, post, platform, fromisoformat(schedule))),
                acc.uuids,
                SetItem(acc.results, platform,
                        [success |-> TRUE, scheduled |-> TRUE, scheduled_time |-> schedule]),
                acc.dispatched) }

ScheduleStep(platform, post, schedule, acc) ==
    { LoopState(Append(acc.scheduled_posts,
                       ScheduledPost(acc.uuids + 1, post, platform, fromisoformat(schedule))),
                acc.uuids + 1,
                SetItem(acc.results, platform,
                        [success |-> TRUE, scheduled |-> TRUE, scheduled_time |-> schedule]),
                acc.dispatched) }

\* the result entry of one client call (server.py 384-390): the PostResult the
\* client returned, or the entry the except clause makes of its exception
DispatchEntry(platform, post, outcome, now) ==
    IF outcome = "raise" THEN [success |-> FALSE, error |-> ClientException]
    ELSE client_create_post(platform, post, outcome, now)

ClientCall(platform, post, outcome) ==
    [platform |-> platform, post |-> post.id, outcome |-> outcome]

\* the immediate branch (server.py 382-390): the client is called once; one end
\* per outcome of the call
DispatchStep_Swallows(platform, post, now, acc) ==
    { LoopState(acc.scheduled_posts, acc.uuids,
                IF outcome = "raise" THEN acc.results
                ELSE SetItem(acc.results, platform,
                             DispatchEntry(platform, post, outcome, now)),
                Append(acc.dispatched, ClientCall(platform, post, outcome))) :
      outcome \in Outcomes }

DispatchStep_Retries(platform, post, now, acc) ==
    { LoopState(acc.scheduled_posts, acc.uuids,
                SetItem(acc.results, platform, DispatchEntry(platform, post, outcome, now)),
                IF outcome = "ok"
                THEN Append(acc.dispatched, ClientCall(platform, post, outcome))
                ELSE acc.dispatched \o << ClientCall(platform, post, outcome),
                                          ClientCall(platform, post, outcome) >>) :
      outcome \in Outcomes }

DispatchStep(platform, post, now, acc) ==
    { LoopState(acc.scheduled_posts, acc.uuids,
                SetItem(acc.results, platform, DispatchEntry(platform, post, outcome, now)),
                Append(acc.dispatched, ClientCall(platform, post, outcome))) :
      outcome \in Outcomes }

\* one iteration of "for platform in platforms" (server.py 366-395): the set of
\* loop states it can end in
PlatformStep(platform, post, schedule, now, acc) ==
    IF platform \in platforms
    THEN IF Truthy(schedule)
         THEN ScheduleStep(platform, post, schedule, acc)
         ELSE DispatchStep(platform, post, now, acc)
    ELSE NotConfiguredStep(platform, acc)

\* the loop from its i-th platform on
RECURSIVE PostToEach(_, _, _, _, _)
PostToEach(i, post, schedule, now, acc) ==
    IF i > Len(post.platforms) THEN {acc}
    ELSE UNION { PostToEach(i + 1, post, schedule, now, next) :
                    next \in PlatformStep(post.platforms[i], post, schedule, now, acc) }

\* the first media entry whose optimization raises, 0 when none does (server.py 317-340)
FailingMedia(media, platform_list) ==
    LET bad == {i \in 1..Len(media) :
                  \/ media[i].type = "image" /\ optimize_image_raises(media[i], platform_list)
                  \/ media[i].type = "video" /\ optimize_video_raises(media[i], platform_list)}
    IN  IF bad = {} THEN 0 ELSE SetMin(bad)

\* media_assets: one MediaAsset per image or video entry (other types are skipped)
MediaAssets(media) ==
    LET kept == SelectSeq(media, LAMBDA m : m.type \in {"image", "video"})
    IN  [i \in 1..Len(kept) |-> kept[i].type]

PostHashtags_AlwaysGenerates(content, platform_list) ==
    generate_hashtags(content.text,
                      IF platform_list # <<>> THEN platform_list[1] ELSE "twitter",
                      DefaultMaxCount)

\* hashtags of the post (server.py 342-348); a request without a hashtags key
\* is a request with hashtags <<>>
PostHashtags(content, platform_list) ==
    IF content.hashtags = <<>>
    THEN generate_hashtags(content.text,
                           IF platform_list # <<>> THEN platform_list[1] ELSE "twitter",
                           DefaultMaxCount)
    ELSE content.hashtags

EffectiveSchedule_OptimizeWins(args, now) ==
    IF args.optimize_timing
    THEN isoformat(find_optimal_posting_time(args.platforms, now))
    ELSE args.schedule

\* the schedule in force (server.py 350-353)
EffectiveSchedule(args, now) ==
    IF args.optimize_timing /\ ~Truthy(args.schedule)
    THEN isoformat(find_optimal_posting_time(args.platforms, now))
    ELSE args.schedule

CreatePost_MediaAfterPlatforms(cal, n, args, now) ==
    LET content == args.content
        failing == FailingMedia(content.media, args.platforms)
        schedule == EffectiveSchedule(args, now)
        unchanged(resp) == { [scheduled_posts |-> cal, uuids |-> n,
                              dispatched |-> <<>>, response |-> resp] }
    IN  IF Truthy(schedule) /\ ~CanParse(schedule)
        THEN unchanged(Raise("create_post", <<"Invalid isoformat string">>))
        ELSE IF ~PostValid(args.platforms)
        THEN unchanged(Raise("create_post", <<"validation error for Post", "platforms">>))
        ELSE LET post == Post(n + 1, content.text, MediaAssets(content.media),
                              PostHashtags(content, args.platforms), args.platforms,
                              IF Truthy(schedule) THEN fromisoformat(schedule) ELSE NoTime)
             IN  { [scheduled_posts |-> end.scheduled_posts, uuids |-> end.uuids,
                    dispatched |-> end.dispatched,
                    response |-> IF failing # 0
                                 THEN Raise("create_post",
                                            IF content.media[failing].type = "image"
                                            THEN ImageError ELSE VideoError)
                                 ELSE Return("create_post",
                                        [results |-> end.results,
                                         content |-> [text |-> post.text,
                                                      hashtags |-> post.hashtags,
                                                      media_count |-> Len(post.media)]])] :
                   end \in PostToEach(1, post, schedule, now,
                                      LoopState(cal, n + 1, <<>>, <<>>)) }

\* create_post(args) called at time `now` on a server with calendar `cal` that has
\* issued n tokens: the set of its possible ends, each the server's new calendar
\* and token count, the client calls made, and the value returned or exception raised
CreatePost(cal, n, args, now) ==
    LET content == args.content
        failing == FailingMedia(content.media, args.platforms)
        schedule == EffectiveSchedule(args, now)
        unchanged(resp) == { [scheduled_posts |-> cal, uuids |-> n,
                              dispatched |-> <<>>, response |-> resp] }
    IN  IF failing # 0
        THEN unchanged(Raise("create_post",
                             IF content.media[failing].type = "image"
                             THEN ImageError ELSE VideoError))
        ELSE IF Truthy(schedule) /\ ~CanParse(schedule)
        THEN unchanged(Raise("create_post", <<"Invalid isoformat string">>))
        ELSE IF ~PostValid(args.platforms)
        THEN unchanged(Raise("create_post", <<"validation error for Post", "platforms">>))
        ELSE LET post == Post(n + 1, content.text, MediaAssets(content.media),
                              PostHashtags(content, args.platforms), args.platforms,
                              IF Truthy(schedule) THEN fromisoformat(schedule) ELSE NoTime)
             IN  { [scheduled_posts |-> end.scheduled_posts, uuids |-> end.uuids,
                    dispatched |-> end.dispatched,
                    response |-> Return("create_post",
                                        [results |-> end.results,
                                         content |-> [text |-> post.text,
                                                      hashtags |-> post.hashtags,
                                                      media_count |-> Len(post.media)]])] :
                   end \in PostToEach(1, post, schedule, now,
                                      LoopState(cal, n + 1, <<>>, <<>>)) }

----------------------------------------------------------------------------
(* server.py: schedule_posts *)

\* the loop "for post_data in posts" (server.py 471-473) from its i-th post on:
\* an exception of create_post ends the loop and is the outcome of schedule_posts
RECURSIVE ScheduleEach_Prepends(_, _, _, _)
ScheduleEach_Prepends(i, posts, now, acc) ==
    IF i > Len(posts)
    THEN { [scheduled_posts |-> acc.scheduled_posts, uuids |-> acc.uuids,
            dispatched |-> acc.dispatched,
            response |-> Return("schedule_posts",
                                [scheduled_count |-> Len(acc.results),
                                 results |-> acc.results])] }
    ELSE UNION {
           IF end.response.raised
           THEN { [scheduled_posts |-> end.scheduled_posts, uuids |-> end.uuids,
                   dispatched |-> acc.dispatched \o end.dispatched,
                   response |-> Raise("schedule_posts", end.response.error)] }
           ELSE ScheduleEach_Prepends(i + 1, posts, now,
                             LoopState(end.scheduled_posts, end.uuids,
                                       <<end.response.payload>> \o acc.results,
                                       acc.dispatched \o end.dispatched)) :
           end \in CreatePost(acc.scheduled_posts, acc.uuids, posts[i], now) }

RECURSIVE ScheduleEach(_, _, _, _)
ScheduleEach(i, posts, now, acc) ==
    IF i > Len(posts)
    THEN { [scheduled_posts |-> acc.scheduled_posts, uuids |-> acc.uuids,
            dispatched |-> acc.dispatched,
            response |-> Return("schedule_posts",
                                [scheduled_count |-> Len(acc.results),
                                 results |-> acc.results])] }
    ELSE UNION {
           IF end.response.raised
           THEN { [scheduled_posts |-> end.scheduled_posts, uuids |-> end.uuids,
                   dispatched |-> acc.dispatched \o end.dispatched,
                   response |-> Raise("schedule_posts", end.response.error)] }
           ELSE ScheduleEach(i + 1, posts, now,
                             LoopState(end.scheduled_posts, end.uuids,
                                       Append(acc.results, end.response.payload),
                                       acc.dispatched \o end.dispatched)) :
           end \in CreatePost(acc.scheduled_posts, acc.uuids, posts[i], now) }

\* schedule_posts(args): with optimize_spacing and more than one post the handler
\* evaluates timedelta(...), a name server.py never imports (server.py 7, 468)
SchedulePosts(cal, n, args, now) ==
    IF args.optimize_spacing /\ Len(args.posts) > 1
    THEN { [scheduled_posts |-> cal, uuids |-> n, dispatched |-> <<>>,
            response |-> Raise("schedule_posts", <<"name 'timedelta' is not defined">>)] }
    ELSE ScheduleEach(1, args.posts, now, LoopState(cal, n, <<>>, <<>>))

----------------------------------------------------------------------------
(* server.py: manage_calendar *)

NoDateRange == [given |-> FALSE, start |-> NoneStr, end |-> NoneStr]
DateRange(start, end) == [given |-> TRUE, start |-> start, end |-> end]

\* start_date <= t <= end_date, a chained comparison: "TypeError" when a
\* comparison it evaluates is between a naive and an aware datetime
InRange(start_date, t, end_date) ==
    IF ~Comparable(start_date, t) THEN "TypeError"
    ELSE IF ~DateTimeLeq(start_date, t) THEN "False"
    ELSE IF ~Comparable(t, end_date) THEN "TypeError"
    ELSE IF DateTimeLeq(t, end_date) THEN "True" ELSE "False"

\* one entry of the view payload; the texts of the model are shorter than 100
\* characters, so text[:100] is the text
ViewItem(sp) ==
    [id |-> sp.id, platform |-> sp.platform,
     scheduled_time |-> isoformat(sp.scheduled_time),
     content |-> <<sp.post.text, "...">>,
     media_count |-> Len(sp.post.media), hashtags |-> sp.post.hashtags]

ViewPayload(filtered_posts) ==
    [scheduled_posts |-> [i \in 1..Len(filtered_posts) |-> ViewItem(filtered_posts[i])],
     total_count |-> Len(filtered_posts)]

\* action "view" (server.py 566-590)
CalendarView(cal, date_range) ==
    IF ~date_range.given THEN Return("manage_calendar", ViewPayload(cal))
    ELSE IF ~CanParse(date_range.start) \/ ~CanParse(date_range.end)
    THEN Raise("manage_calendar", <<"Invalid isoformat string">>)
    ELSE LET start_date == fromisoformat(date_range.start)
             end_date == fromisoformat(date_range.end)
         IN  IF \E i \in 1..Len(cal) :
                    InRange(start_date, cal[i].scheduled_time, end_date) = "TypeError"
             THEN Raise("manage_calendar",
                        <<"can't compare offset-naive and offset-aware datetimes">>)
             ELSE Return("manage_calendar",
                         ViewPayload(SelectSeq(cal, LAMBDA sp :
                             InRange(start_date, sp.scheduled_time, end_date) = "True")))

\* action "delete" (server.py 592-605) from its i-th post id on; acc is the
\* calendar and deleted_count so far
RECURSIVE DeleteEach_FirstOnly(_, _, _)
DeleteEach_FirstOnly(i, post_ids, acc) ==
    IF i > Len(post_ids) \/ i > 1 THEN acc
    ELSE DeleteEach_FirstOnly(i + 1, post_ids,
                    [scheduled_posts |-> SelectSeq(acc.scheduled_posts,
                                                   LAMBDA sp : sp.id # post_ids[i]),
                     deleted_count |-> Len(post_ids)])

RECURSIVE DeleteEach_CountsRemoved(_, _, _)
DeleteEach_CountsRemoved(i, post_ids, acc) ==
    IF i > Len(post_ids) THEN acc
    ELSE LET kept == SelectSeq(acc.scheduled_posts, LAMBDA sp : sp.id # post_ids[i])
         IN  DeleteEach_CountsRemoved(i + 1, post_ids,
                    [scheduled_posts |-> kept,
                     deleted_count |-> acc.deleted_count
                                         + (Len(acc.scheduled_posts) - Len(kept))])

RECURSIVE DeleteEach(_, _, _)
DeleteEach(i, post_ids, acc) ==
    IF i > Len(post_ids) THEN acc
    ELSE DeleteEach(i + 1, post_ids,
                    [scheduled_posts |-> SelectSeq(acc.scheduled_posts,
                                                   LAMBDA sp : sp.id # post_ids[i]),
                     deleted_count |-> acc.deleted_count + 1])

ManageCalendar_RescheduleClears(cal, args) ==
    CASE args.action = "view" ->
           [scheduled_posts |-> cal, response |-> CalendarView(cal, args.date_range)]
      [] args.action = "delete" ->
           LET end == DeleteEach(1, args.post_ids,
                                 [scheduled_posts |-> cal, deleted_count |-> 0])
           IN  [scheduled_posts |-> end.scheduled_posts,
                response |-> Return("manage_calendar",
                                    [action |-> "delete",
                                     deleted_count |-> end.deleted_count])]
      [] args.action = "reschedule" ->
           [scheduled_posts |-> <<>>,
            response |-> Return("manage_calendar",
                                [action |-> "reschedule",
                                 message |-> "Rescheduling functionality to be implemented"])]
      [] OTHER ->
           [scheduled_posts |-> cal,
            response |-> Return("manage_calendar",
                                [action |-> args.action, status |-> "completed"])]

\* manage_calendar(args): the new calendar and the value returned or exception raised
ManageCalendar(cal, args) ==
    CASE args.action = "view" ->
           [scheduled_posts |-> cal, response |-> CalendarView(cal, args.date_range)]
      [] args.action = "delete" ->
           LET end == DeleteEach(1, args.post_ids,
                                 [scheduled_posts |-> cal, deleted_count |-> 0])
           IN  [scheduled_posts |-> end.scheduled_posts,
                response |-> Return("manage_calendar",
                                    [action |-> "delete",
                                     deleted_count |-> end.deleted_count])]
      [] args.action = "reschedule" ->
           [scheduled_posts |-> cal,
            response |-> Return("manage_calendar",
                                [action |-> "reschedule",
                                 message |-> "Rescheduling functionality to be implemented"])]
      [] OTHER ->
           [scheduled_posts |-> cal,
            response |-> Return("manage_calendar",
                                [action |-> args.action, status |-> "completed"])]

----------------------------------------------------------------------------
(* server.py: get_analytics, get_trending, generate_hashtags_tool, optimize_media *)

\* what a client's get_analytics or get_trending does: it returns or it raises
QueryOutcomes == {"ok", "raise"}

\* Analytics(platform, metrics).dict() as the stub clients build it: the counts
\* sit under the key "metrics"
AnalyticsDict(platform) ==
    [platform |-> platform,
     metrics |-> [impressions |-> 1000, engagement |-> 50],
     date_range |-> <<>>, post_ids |-> <<>>]

\* sum(data.get(key, 0) for data in analytics_data.values() if key in data)
RECURSIVE SumOf(_, _, _)
SumOf(analytics_data, key, names) ==
    IF names = {} THEN 0
    ELSE LET name == CHOOSE x \in names : TRUE
             data == analytics_data[name]
         IN  (IF key \in DOMAIN data THEN data[key] ELSE 0)
               + SumOf(analytics_data, key, names \ {name})

\* the aggregated block of get_analytics (server.py 432-449); the rate is the
\* fraction total_engagement / total_impressions, 0 when there are no impressions
Aggregated(analytics_data) ==
    LET total_impressions == SumOf(analytics_data, "impressions", DOMAIN analytics_data)
        total_engagement == SumOf(analytics_data, "engagement", DOMAIN analytics_data)
    IN  [total_impressions |-> total_impressions,
         total_engagement |-> total_engagement,
         engagement_rate |-> IF total_impressions > 0
                             THEN <<total_engagement, total_impressions>>
                             ELSE <<0, 1>>]

\* the loop of get_analytics (server.py 414-430) from the i-th platform on: the
\* set of the analytics_data dicts it can end with
RECURSIVE AnalyticsEach(_, _, _, _)
AnalyticsEach(i, platform_list, registered, analytics_data) ==
    IF i > Len(platform_list) THEN {analytics_data}
    ELSE LET platform == platform_list[i]
         IN  IF platform \in registered
             THEN UNION { AnalyticsEach(i + 1, platform_list, registered,
                              SetItem(analytics_data, platform,
                                      IF outcome = "ok" THEN AnalyticsDict(platform)
                                      ELSE [error |-> ClientException])) :
                          outcome \in QueryOutcomes }
             ELSE AnalyticsEach(i + 1, platform_list, registered,
                      SetItem(analytics_data, platform,
                              [error |-> NotConfigured(platform)]))

\* get_analytics(args): the values it can return
GetAnalytics(registered, args) ==
    { Return("get_analytics",
             [platforms |-> analytics_data, aggregated |-> Aggregated(analytics_data)]) :
      analytics_data \in AnalyticsEach(1, args.platforms, registered, <<>>) }

\* what a client's get_trending returns
Trends(platform) == [trending_topics |-> <<platform, "topic">>]

\* the loop of get_trending (server.py 538-553) from the i-th platform on
RECURSIVE TrendingEach(_, _, _, _)
TrendingEach(i, platform_list, registered, trending_data) ==
    IF i > Len(platform_list) THEN {trending_data}
    ELSE LET platform == platform_list[i]
         IN  IF platform \in registered
             THEN UNION { TrendingEach(i + 1, platform_list, registered,
                              SetItem(trending_data, platform,
                                      IF outcome = "ok" THEN Trends(platform)
                                      ELSE [error |-> ClientException])) :
                          outcome \in QueryOutcomes }
             ELSE TrendingEach(i + 1, platform_list, registered,
                      SetItem(trending_data, platform,
                              [error |-> NotConfigured(platform)]))

\* get_trending(args) called at time `now`
GetTrending(registered, args, now) ==
    { Return("get_trending",
             [platforms |-> trending_data,
              timestamp |-> isoformat(DateTime(now, "UTC"))]) :
      trending_data \in TrendingEach(1, args.platforms, registered, <<>>) }

\* generate_hashtags_tool(args) (server.py 480-498)
GenerateHashtagsTool(args) ==
    LET hashtags == generate_hashtags(args.content, args.platform, args.max_hashtags)
    IN  Return("generate_hashtags",
               [hashtags |-> hashtags, count |-> Len(hashtags), platform |-> args.platform])

OptimizeMedia_StopsAtFailure(args) ==
    LET fails(platform) ==
            IF args.media_type = "image"
            THEN optimize_image_raises(args.media, <<platform>>)
            ELSE optimize_video_raises(args.media, <<platform>>)
        failing == {i \in 1..Len(args.platforms) : fails(args.platforms[i])}
        last == IF failing = {} THEN Len(args.platforms) ELSE SetMin(failing)
    IN  Return("optimize_media",
               [original_path |-> args.media,
                optimized |-> [platform \in {args.platforms[i] : i \in 1..last}
                                 |-> IF fails(platform)
                                     THEN [success |-> FALSE,
                                           error |-> IF args.media_type = "image"
                                                     THEN ImageError ELSE VideoError]
                                     ELSE [path |-> <<"stem", "_optimized.jpg">>,
                                           success |-> TRUE]]])

\* optimize_media(args) (server.py 500-528): each platform on its own, an
\* exception of the optimizer becoming that platform's entry
OptimizeMedia(args) ==
    LET entry(platform) ==
            IF args.media_type = "image"
            THEN IF optimize_image_raises(args.media, <<platform>>)
                 THEN [success |-> FALSE, error |-> ImageError]
                 ELSE [path |-> <<"stem", "_optimized.jpg">>, success |-> TRUE]
            ELSE IF optimize_video_raises(args.media, <<platform>>)
                 THEN [success |-> FALSE, error |-> VideoError]
                 ELSE [path |-> <<"stem", "_optimized.mp4">>, success |-> TRUE]
    IN  Return("optimize_media",
               [original_path |-> args.media,
                optimized |-> [platform \in {args.platforms[i] : i \in 1..Len(args.platforms)}
                                 |-> entry(platform)]])

----------------------------------------------------------------------------
(* server.py: initialize *)

\* the environment variables initialize reads; an environment is the set of
\* those that are set to a non-empty value (os.getenv(key) is truthy)
TwitterKeys ==
    {"TWITTER_API_KEY", "TWITTER_API_SECRET", "TWITTER_ACCESS_TOKEN", "TWITTER_ACCESS_SECRET"}
EnvVars ==
    TwitterKeys \cup {"LINKEDIN_ACCESS_TOKEN", "INSTAGRAM_ACCESS_TOKEN",
                      "INSTAGRAM_BUSINESS_ID", "FACEBOOK_ACCESS_TOKEN", "FACEBOOK_PAGE_ID"}

\* the variable whose presence makes initialize construct the client
TokenOf ==
    [p \in {"linkedin", "instagram", "facebook"} |->
        CASE p = "linkedin" -> "LINKEDIN_ACCESS_TOKEN"
          [] p = "instagram" -> "INSTAGRAM_ACCESS_TOKEN"
          [] p = "facebook" -> "FACEBOOK_ACCESS_TOKEN"]

\* TwitterClient(api_key=, api_secret=, access_token=, access_secret=): the
\* constructor of platforms/twitter.py names its last parameter
\* access_token_secret, so the call raises TypeError
TwitterClientError ==
    <<"TwitterClient.__init__() got an unexpected keyword argument", "access_secret">>

\* initialize() under environment env on a server just constructed: the names
\* registered in self.platforms, and whether it returned. The twitter block
\* comes first, so its exception leaves nothing registered
Initialize(env) ==
    IF TwitterKeys \subseteq env
    THEN [platforms |-> {}, response |-> Raise("initialize", TwitterClientError)]
    ELSE [platforms |-> {p \in DOMAIN TokenOf : TokenOf[p] \in env},
          response |-> Return("initialize", <<>>)]

----------------------------------------------------------------------------
(* server.py: handle_call_tool *)

\* json.dumps(result) raises TypeError on a datetime: a PostResult.dict() holds one
HoldsDateTime(results) == \E p \in DOMAIN results : "timestamp" \in DOMAIN results[p]

JsonSerializable(resp) ==
    CASE resp.tool = "create_post" -> ~HoldsDateTime(resp.payload.results)
      [] resp.tool = "schedule_posts" ->
           \A i \in 1..Len(resp.payload.results) :
               ~HoldsDateTime(resp.payload.results[i].results)
      [] OTHER -> TRUE

\* "raise ValueError(f"Unknown tool: {name}")"
UnknownTool(name) == Raise(name, <<"Unknown tool:", name>>)

handle_call_tool_Propagates(resp) ==
    IF resp.raised THEN resp
    ELSE IF ~JsonSerializable(resp)
    THEN [error |-> <<"Object of type datetime is not JSON serializable">>,
          tool |-> resp.tool]
    ELSE resp.payload

\* what the caller of the tool receives for the handler outcome resp: the payload, or
\* the structured error made of the exception of the handler or of json.dumps
handle_call_tool(resp) ==
    IF resp.raised THEN [error |-> resp.error, tool |-> resp.tool]
    ELSE IF ~JsonSerializable(resp)
    THEN [error |-> <<"Object of type datetime is not JSON serializable">>,
          tool |-> resp.tool]
    ELSE resp.payload

----------------------------------------------------------------------------
(* The requests of the model *)

\* every list of at most n elements of S
RECURSIVE SeqsUpTo(_, _)
SeqsUpTo(S, n) ==
    IF n = 0 THEN {<<>>}
    ELSE LET shorter == SeqsUpTo(S, n - 1)
         IN  shorter \cup {Append(s, x) : s \in {t \in shorter : Len(t) = n - 1}, x \in S}

PlatformLists == SeqsUpTo(RequestNames, MaxPlatforms)

\* the content of the spec's scenario: text "hi", no hashtags, no media
PlainContent == [text |-> TextHi, hashtags |-> <<>>, media |-> <<>>]
\* a content with hashtags and an image that cannot be opened
BadMediaContent ==
    [text |-> TextLaunch, hashtags |-> <<"promo">>, media |-> << Media("image", FALSE) >>]

\* a content with an image that can be normalized
ImageContent ==
    [text |-> TextHi, hashtags |-> <<"promo">>, media |-> << Media("image", TRUE) >>]
\* a content with such an image followed by a video
VideoContent ==
    [text |-> TextHi, hashtags |-> <<"promo">>,
     media |-> << Media("image", TRUE), Media("video", TRUE) >>]

\* a text with a hashtag and words to derive hashtags from, none supplied
LaunchContent == [text |-> TextLaunch, hashtags |-> <<>>, media |-> <<>>]
\* the same text with a hashtags list supplied
TaggedContent == [text |-> TextLaunch, hashtags |-> <<"promo">>, media |-> <<>>]
\* a text longer than a tweet
LongContent == [text |-> TextLong, hashtags |-> <<>>, media |-> <<>>]

\* clock readings (hours since the model's first midnight)
Nows == {21}

\* create_post requests: every platforms list, immediate, at an explicit (naive)
\* time, or at the optimized (aware) time; one with an unparsable schedule, one
\* with an empty one, one with an explicit aware time, and some whose media can
\* or cannot be normalized
CreatePostArgs ==
    [platforms : PlatformLists, content : {PlainContent},
     schedule : {NoneStr, IsoStr(15, "")}, optimize_timing : {FALSE}]
    \cup [platforms : PlatformLists, content : {PlainContent},
          schedule : {NoneStr}, optimize_timing : {TRUE}]
    \cup [platforms : {<<"twitter">>}, content : {PlainContent},
          schedule : {GarbageStr, EmptyStr, IsoStr(39, "+00:00")},
          optimize_timing : {FALSE}]
    \cup [platforms : {<<"twitter">>}, content : {BadMediaContent},
          schedule : {NoneStr}, optimize_timing : {FALSE}]
    \cup [platforms : {<<>>, <<"twitter">>, <<"linkedin", "twitter">>},
          content : {LaunchContent, TaggedContent},
          schedule : {NoneStr}, optimize_timing : {FALSE}]
    \cup [platforms : {<<"twitter">>}, content : {LongContent},
          schedule : {NoneStr}, optimize_timing : {FALSE}]
    \cup [platforms : {<<"twitter", "linkedin">>}, content : {PlainContent},
          schedule : {EmptyStr, IsoStr(15, "")}, optimize_timing : {TRUE}]
    \cup [platforms : {<<"twitter">>, <<"twitter", "linkedin">>},
          content : {BadMediaContent, VideoContent},
          schedule : {NoneStr, IsoStr(15, "")}, optimize_timing : {FALSE}]
    \cup [platforms : {<<>>, <<"twitter">>, <<"twitter", "tiktok">>},
          content : {ImageContent},
          schedule : {NoneStr}, optimize_timing : {FALSE}]

\* the posts of a schedule_posts request
PostDatas ==
    [platforms : {<<"twitter">>}, content : {PlainContent},
     schedule : {NoneStr, IsoStr(24, "")}, optimize_timing : {FALSE}]
    \cup [platforms : {<<"nonexistent">>}, content : {PlainContent},
          schedule : {NoneStr}, optimize_timing : {FALSE}]
    \cup [platforms : {<<"linkedin">>}, content : {LaunchContent},
          schedule : {NoneStr}, optimize_timing : {FALSE}]

SchedulePostsArgs ==
    [posts : SeqsUpTo(PostDatas, MaxPosts), optimize_spacing : {FALSE}]
    \cup [posts : SeqsUpTo({[platforms |-> <<"twitter">>, content |-> PlainContent,
                             schedule |-> NoneStr, optimize_timing |-> FALSE]}, MaxPosts),
          optimize_spacing : {TRUE}]

\* date_range arguments: absent, naive dates, aware bounds, an unparsable bound
DateRanges ==
    {NoDateRange, DateRange(IsoStr(0, ""), IsoStr(24, "")),
     DateRange(IsoStr(24, ""), IsoStr(48, "")),
     DateRange(IsoStr(0, "+00:00"), IsoStr(48, "+00:00")),
     DateRange(IsoStr(0, ""), GarbageStr)}

\* identifiers a delete request names: tokens the server may have issued, and one
\* it never issues
PostIds == {2, 3, MaxUuids + 1}

ManageCalendarArgs ==
    [action : {"view"}, date_range : DateRanges, post_ids : {<<>>}]
    \cup [action : {"delete"}, date_range : {NoDateRange},
          post_ids : SeqsUpTo(PostIds, MaxPostIds)]
    \cup [action : {"update", "reschedule"}, date_range : {NoDateRange}, post_ids : {<<>>}]

\* get_analytics and get_trending requests
QueryArgs ==
    [platforms : {<<"twitter">>, <<"twitter", "linkedin">>, <<"nonexistent">>}]

\* generate_hashtags requests of the tool
GenerateHashtagsArgs ==
    [content : {TextHi, TextLaunch}, platform : {"twitter", "facebook"},
     max_hashtags : {1, DefaultMaxCount}]

\* optimize_media requests: a file PIL can read or not, as an image or as a video
OptimizeMediaArgs ==
    {[media |-> Media(t, r), media_type |-> t, platforms |-> pl] :
        t \in {"image", "video"}, r \in BOOLEAN,
        pl \in {<<"twitter">>, <<"twitter", "tiktok">>, <<"tiktok", "twitter">>}}

----------------------------------------------------------------------------
(* The server: one tool invocation at a time. A handler runs when no response is
   pending and leaves its outcome pending; deliver hands it to the caller. *)

NoCall == [tool |-> "none"]
NoResponse == Return("none", <<>>)

Idle == call = NoCall

\* the server when it starts serving: the clients self.platforms holds (none,
\* twitter's, or twitter's and linkedin's), an empty calendar
Init ==
    /\ platforms \in {{}, {"twitter"}, {"twitter", "linkedin"}}
    /\ scheduled_posts = <<>>
    /\ uuids = 0
    /\ invoked = {}
    /\ call = NoCall
    /\ before = <<>>
    /\ dispatched = <<>>
    /\ response = NoResponse

PostsOf(calls) == {calls[i].post : i \in 1..Len(calls)}

\* a create_post tool invocation
create_post ==
    /\ Idle
    /\ \E args \in CreatePostArgs, now \in Nows :
         \E end \in CreatePost(scheduled_posts, uuids, args, now) :
            /\ end.uuids <= MaxUuids
            /\ scheduled_posts' = end.scheduled_posts
            /\ uuids' = end.uuids
            /\ invoked' = invoked \cup PostsOf(end.dispatched)
            /\ call' = [tool |-> "create_post", args |-> args, now |-> now]
            /\ before' = scheduled_posts
            /\ dispatched' = end.dispatched
            /\ response' = end.response
            /\ UNCHANGED platforms

\* a schedule_posts tool invocation
schedule_posts ==
    /\ Idle
    /\ \E args \in SchedulePostsArgs, now \in Nows :
         \E end \in SchedulePosts(scheduled_posts, uuids, args, now) :
            /\ end.uuids <= MaxUuids
            /\ scheduled_posts' = end.scheduled_posts
            /\ uuids' = end.uuids
            /\ invoked' = invoked \cup PostsOf(end.dispatched)
            /\ call' = [tool |-> "schedule_posts", args |-> args, now |-> now]
            /\ before' = scheduled_posts
            /\ dispatched' = end.dispatched
            /\ response' = end.response
            /\ UNCHANGED platforms

\* a manage_calendar tool invocation
manage_calendar ==
    /\ Idle
    /\ \E args \in ManageCalendarArgs :
         LET end == ManageCalendar(scheduled_posts, args)
         IN  /\ scheduled_posts' = end.scheduled_posts
             /\ call' = [tool |-> "manage_calendar", args |-> args]
             /\ before' = scheduled_posts
             /\ dispatched' = <<>>
             /\ response' = end.response
             /\ UNCHANGED <<platforms, uuids, invoked>>

\* a get_analytics tool invocation
get_analytics ==
    /\ Idle
    /\ \E args \in QueryArgs :
         \E resp \in GetAnalytics(platforms, args) :
            /\ call' = [tool |-> "get_analytics", args |-> args]
            /\ before' = scheduled_posts
            /\ dispatched' = <<>>
            /\ response' = resp
            /\ UNCHANGED <<platforms, scheduled_posts, uuids, invoked>>

\* a get_trending tool invocation
get_trending ==
    /\ Idle
    /\ \E args \in QueryArgs, now \in Nows :
         \E resp \in GetTrending(platforms, args, now) :
            /\ call' = [tool |-> "get_trending", args |-> args, now |-> now]
            /\ before' = scheduled_posts
            /\ dispatched' = <<>>
            /\ response' = resp
            /\ UNCHANGED <<platforms, scheduled_posts, uuids, invoked>>

\* a generate_hashtags tool invocation
generate_hashtags_tool ==
    /\ Idle
    /\ \E args \in GenerateHashtagsArgs :
            /\ call' = [tool |-> "generate_hashtags", args |-> args]
            /\ before' = scheduled_posts
            /\ dispatched' = <<>>
            /\ response' = GenerateHashtagsTool(args)
            /\ UNCHANGED <<platforms, scheduled_posts, uuids, invoked>>

\* an optimize_media tool invocation
optimize_media ==
    /\ Idle
    /\ \E args \in OptimizeMediaArgs :
            /\ call' = [tool |-> "optimize_media", args |-> args]
            /\ before' = scheduled_posts
            /\ dispatched' = <<>>
            /\ response' = OptimizeMedia(args)
            /\ UNCHANGED <<platforms, scheduled_posts, uuids, invoked>>

\* tool names no branch of handle_call_tool matches
UnknownTools == {"delete_post", "create_posts"}

\* an invocation under a name handle_call_tool does not know
unknown_tool ==
    /\ Idle
    /\ \E name \in UnknownTools :
          /\ call' = [tool |-> name]
          /\ response' = UnknownTool(name)
    /\ before' = scheduled_posts
    /\ dispatched' = <<>>
    /\ UNCHANGED <<platforms, scheduled_posts, uuids, invoked>>

\* handle_call_tool returns: the caller has the response, the server keeps only
\* its platforms and its calendar
deliver ==
    /\ ~Idle
    /\ call' = NoCall
    /\ before' = <<>>
    /\ dispatched' = <<>>
    /\ response' = NoResponse
    /\ UNCHANGED <<platforms, scheduled_posts, uuids, invoked>>

Next ==
    \/ create_post
    \/ schedule_posts
    \/ manage_calendar
    \/ get_analytics
    \/ get_trending
    \/ generate_hashtags_tool
    \/ optimize_media
    \/ unknown_tool
    \/ deliver

Spec == Init /\ [][Next]_vars

----------------------------------------------------------------------------
(* utils.py called on its own: validate_post_content, generate_hashtags and
   find_optimal_posting_time are functions of their arguments (and of the clock) *)

\* names a caller may pass as platform
PlatformNames == PlatformType \cup {"nonexistent"}

\* content lengths around every character limit
ValidateLengths ==
    {0, 12} \cup UNION {{l - 1, l, l + 1} :
                          l \in {char_limits[p] : p \in DOMAIN char_limits} \cup {DefaultLimit}}

\* one-word contents of those lengths, written with or without a '#'
ValidateContents ==
    {<< Tok("w", "w", n - (IF t THEN 1 ELSE 0), t) >> :
        n \in ValidateLengths \ {0}, t \in BOOLEAN} \cup {<<>>}

\* the words of the texts handed to generate_hashtags
Vocabulary ==
    {Tok("AI", "ai", 2, TRUE), Tok("Launch", "launch", 6, TRUE),
     Tok("launch", "launch", 6, FALSE), Tok("product", "product", 7, FALSE),
     Tok("news", "news", 4, FALSE), Tok("news", "news", 4, TRUE),
     Tok("hi", "hi", 2, FALSE)}

\* "#AI #ML #Launch product news daily product"
TextManyTags ==
    << Tok("AI", "ai", 2, TRUE), Tok("ML", "ml", 2, TRUE), Tok("Launch", "launch", 6, TRUE),
       Tok("product", "product", 7, FALSE), Tok("news", "news", 4, FALSE),
       Tok("daily", "daily", 5, FALSE), Tok("product", "product", 7, FALSE) >>

HashtagTexts == SeqsUpTo(Vocabulary, MaxWords) \cup {TextLaunch, TextManyTags}

\* max_count arguments
MaxCounts == {0, 1, 2, 3, 5, DefaultMaxCount}

\* clock readings of two days, and minutes past the hour
ClockHours == 0..47
ClockMinutes == {0, 30, 59}

call_validate_post_content ==
    /\ Idle
    /\ \E content \in ValidateContents, platform \in PlatformNames :
          /\ call' = [tool |-> "validate_post_content",
                       args |-> [content |-> content, platform |-> platform]]
          /\ response' = Return("validate_post_content",
                                 validate_post_content(content, platform))
    /\ UNCHANGED <<platforms, scheduled_posts, uuids, invoked, before, dispatched>>

call_generate_hashtags ==
    /\ Idle
    /\ \E content \in HashtagTexts, platform \in PlatformNames, max_count \in MaxCounts :
          /\ call' = [tool |-> "generate_hashtags()",
                       args |-> [content |-> content, platform |-> platform,
                                 max_count |-> max_count]]
          /\ response' = Return("generate_hashtags()",
                                 generate_hashtags(content, platform, max_count))
    /\ UNCHANGED <<platforms, scheduled_posts, uuids, invoked, before, dispatched>>

\* the clock reads hour `now` and `minute` minutes when the function is called
call_find_optimal_posting_time ==
    /\ Idle
    /\ \E platform_list \in SeqsUpTo(PlatformType, MaxPlatforms),
           now \in ClockHours, minute \in ClockMinutes :
          /\ call' = [tool |-> "find_optimal_posting_time",
                       args |-> [platforms |-> platform_list],
                       now |-> now, minute |-> minute]
          /\ response' = Return("find_optimal_posting_time",
                                 find_optimal_posting_time(platform_list, now))
    /\ UNCHANGED <<platforms, scheduled_posts, uuids, invoked, before, dispatched>>

\* the post dicts handed to schedule_content_calendar, told apart by their text
CalendarPosts(n) == [k \in 1..n |-> [text |-> k]]

Strategies == {"even_spacing", "peak_times", "weekly"}

\* clock readings at the start of a call, in minutes: around the first and the
\* last slot of a day, around midnight, and on the next day
CalendarClock ==
    {8 * 60 + 59, 9 * 60, 9 * 60 + 1, 12 * 60, 16 * 60 + 30, 19 * 60, 19 * 60 + 1,
     20 * 60 + 30, 23 * 60 + 59, 24 * 60, 33 * 60}

\* the clock reads `now` when the function is called and passes to the next
\* minute before its reading number `tick`
call_schedule_content_calendar ==
    /\ Idle
    /\ \E n \in 0..MaxCalendarPosts, strategy \in Strategies, now \in CalendarClock :
         \E tick \in 0..(2 * n) :
          /\ call' = [tool |-> "schedule_content_calendar", posts |-> CalendarPosts(n),
                       strategy |-> strategy, now |-> now, tick |-> tick]
          /\ response' = Return("schedule_content_calendar",
                                 schedule_content_calendar(CalendarPosts(n), strategy,
                                                           now, tick))
    /\ UNCHANGED <<platforms, scheduled_posts, uuids, invoked, before, dispatched>>

NextUtils ==
    \/ call_validate_post_content
    \/ call_generate_hashtags
    \/ call_find_optimal_posting_time
    \/ call_schedule_content_calendar
    \/ deliver

SpecUtils == Init /\ [][NextUtils]_vars

----------------------------------------------------------------------------
(* utils.py optimize_image, one step per encoding of its loop *)

\* sizes, in MB, of the file img.save can write, around every max_size_mb
FileSizes == {3, 4, 5, 6, 9, 10, 11}

\* the target platforms handed to optimize_image
ImagePlatformLists == SeqsUpTo(PLATFORM_MEDIA_SPECS \cup {"tiktok"}, MaxPlatforms)

\* optimize_image(image_path, platforms) up to the loop: it raises, or enters
\* the loop at quality 85 with nothing encoded yet
call_optimize_image ==
    /\ Idle
    /\ \E platform_list \in ImagePlatformLists, readable \in BOOLEAN :
          IF optimize_image_raises(Media("image", readable), platform_list)
          THEN /\ call' = [tool |-> "optimize_image", platforms |-> platform_list,
                            limit |-> 0, quality |-> StartQuality,
                            encodings |-> 0, file_size_mb |-> 0]
               /\ response' = Raise("optimize_image", ImageError)
          ELSE /\ call' = [tool |-> "optimize_image", platforms |-> platform_list,
                            limit |-> max_size_mb(platform_list),
                            quality |-> StartQuality,
                            encodings |-> 0, file_size_mb |-> 0]
               /\ response' = NoResponse
    /\ UNCHANGED <<platforms, scheduled_posts, uuids, invoked, before, dispatched>>

\* one iteration of "while True": img.save at the current quality writes a file
\* of some size, or fails; then the loop breaks and the function returns, or
\* the quality is lowered
img_save ==
    /\ call.tool = "optimize_image"
    /\ response = NoResponse
    /\ \/ \E file_size_mb \in FileSizes :
             IF LoopBreaks(file_size_mb, call.limit, call.quality)
             THEN /\ call' = [call EXCEPT !.encodings = @ + 1,
                                          !.file_size_mb = file_size_mb]
                  /\ response' = Return("optimize_image", <<"stem", "_optimized.jpg">>)
             ELSE /\ call' = [call EXCEPT !.encodings = @ + 1,
                                          !.file_size_mb = file_size_mb,
                                          !.quality = @ - QualityStep]
                  /\ response' = NoResponse
       \/ /\ call' = [call EXCEPT !.encodings = @ + 1]
          /\ response' = Raise("optimize_image", ImageError)
    /\ UNCHANGED <<platforms, scheduled_posts, uuids, invoked, before, dispatched>>

\* optimize_image has returned or raised: the caller has the outcome
return_optimize_image ==
    /\ call.tool = "optimize_image"
    /\ response # NoResponse
    /\ call' = NoCall
    /\ response' = NoResponse
    /\ UNCHANGED <<platforms, scheduled_posts, uuids, invoked, before, dispatched>>

NextImage ==
    \/ call_optimize_image
    \/ img_save
    \/ return_optimize_image

\* the encoder returns from every call: an iteration that can run does run
SpecImage == Init /\ [][NextImage]_vars /\ WF_vars(img_save)

----------------------------------------------------------------------------
(* initialize on a server just constructed (run) *)

\* the state after __init__: no client, an empty calendar
Constructed ==
    /\ platforms = {}
    /\ scheduled_posts = <<>>
    /\ uuids = 0
    /\ invoked = {}
    /\ call = NoCall
    /\ before = <<>>
    /\ dispatched = <<>>
    /\ response = NoResponse

\* run() awaits initialize() once, under the environment of the process
initialize ==
    /\ Idle
    /\ platforms = {}
    /\ \E env \in SUBSET EnvVars :
          LET end == Initialize(env)
          IN  /\ platforms' = end.platforms
              /\ call' = [tool |-> "initialize", env |-> env]
              /\ response' = end.response
    /\ UNCHANGED <<scheduled_posts, uuids, invoked, before, dispatched>>

NextInitialize ==
    \/ initialize
    \/ deliver

SpecInitialize == Constructed /\ [][NextInitialize]_vars

----------------------------------------------------------------------------
(* Properties *)

IsCreatePost == call.tool = "create_post"
IsView == call.tool = "manage_calendar" /\ call.args.action = "view"
IsDelete == call.tool = "manage_calendar" /\ call.args.action = "delete"

\* the arguments of a create_post that reach the loop over the platforms: no
\* media to normalize, a schedule that is absent or parsable, and only names a
\* Post accepts
Normalizable(args) ==
    /\ args.content.media = <<>>
    /\ args.schedule.kind # "garbage"
    /\ \A i \in 1..Len(args.platforms) : args.platforms[i] \in PlatformType

\* neither a schedule nor optimize_timing
Immediate(args) == ~Truthy(args.schedule) /\ ~args.optimize_timing

\* the listed platforms that have a registered client, one per occurrence, in list order
RegisteredListed == SelectSeq(call.args.platforms, LAMBDA p : p \in platforms)

\* the calendar entries the last invocation appended
NewEntries == SubSeq(scheduled_posts, Len(before) + 1, Len(scheduled_posts))

Elements(s) == {s[i] : i \in 1..Len(s)}

\* C1: a create_post whose platforms list holds a known platform without a
\* registered client returns, for that platform, the entry {success: false,
\* error: "Platform <name> not configured"}; the call does not raise, no calendar
\* entry is made for that platform, and every listed platform has its entry, the
\* registered ones processed (one client call or one calendar entry each).
C1_NotConfiguredEntry ==
    (IsCreatePost /\ Normalizable(call.args)) =>
        \A i \in 1..Len(call.args.platforms) :
            LET p == call.args.platforms[i]
            IN  (p \in KnownPlatforms /\ p \notin platforms) =>
                    /\ ~response.raised
                    /\ DOMAIN response.payload.results = Elements(call.args.platforms)
                    /\ response.payload.results[p]
                         = [success |-> FALSE, error |-> <<"Platform", p, "not configured">>]
                    /\ \A k \in 1..Len(NewEntries) : NewEntries[k].platform # p
                    /\ SubSeq(scheduled_posts, 1, Len(before)) = before
                    /\ Len(NewEntries) + Len(dispatched) = Len(RegisteredListed)

\* C1 witness: linkedin has no client, twitter has one and its post succeeded
C1_Witness ==
    /\ IsCreatePost
    /\ platforms = {"twitter"}
    /\ call.args.platforms = <<"linkedin", "twitter">>
    /\ ~response.raised
    /\ response.payload.results["twitter"].success
    /\ ~response.payload.results["linkedin"].success

\* C2: create_post with a platform name that is none of the known platforms
\* returns a payload (also through handle_call_tool) whose results hold that name
\* with success false and an error containing "not configured"; it does not raise.
C2_UnknownNameEntry ==
    (IsCreatePost /\ call.args.content.media = <<>> /\ call.args.schedule.kind # "garbage") =>
        \A i \in 1..Len(call.args.platforms) :
            LET p == call.args.platforms[i]
            IN  p \notin KnownPlatforms =>
                    /\ ~response.raised
                    /\ "results" \in DOMAIN handle_call_tool(response)
                    /\ p \in DOMAIN response.payload.results
                    /\ ~response.payload.results[p].success
                    /\ "not configured" \in Elements(response.payload.results[p].error)

\* the last client call made for platform p
LastCall(p) ==
    dispatched[CHOOSE j \in 1..Len(dispatched) :
                  /\ dispatched[j].platform = p
                  /\ \A k \in (j + 1)..Len(dispatched) : dispatched[k].platform # p]

\* C3: an exception raised by a client's post operation becomes the entry
\* {success: false, error: <message>} of that platform only, and create_post
\* returns: every platform called has the entry of its own (last) call.
C3_ClientExceptionCaught ==
    (IsCreatePost /\ \E i \in 1..Len(dispatched) : dispatched[i].outcome = "raise") =>
        /\ ~response.raised
        /\ \A i \in 1..Len(dispatched) :
              LET p == dispatched[i].platform
              IN  /\ p \in DOMAIN response.payload.results
                  /\ IF LastCall(p).outcome = "raise"
                     THEN response.payload.results[p]
                            = [success |-> FALSE, error |-> ClientException]
                     ELSE response.payload.results[p].success = (LastCall(p).outcome = "ok")

\* C3 witness: the first client raised, the second posted
C3_Witness ==
    /\ IsCreatePost
    /\ Len(dispatched) = 2
    /\ dispatched[1].platform # dispatched[2].platform
    /\ dispatched[1].outcome = "raise"
    /\ dispatched[2].outcome = "ok"
    /\ ~response.raised
    /\ response.payload.results[dispatched[2].platform].success

\* C4: in an immediate create_post the client of each listed registered platform
\* is called exactly once per listing, in list order, for the one post, whatever
\* the earlier calls returned or raised.
C4_OneCallEachInOrder ==
    (IsCreatePost /\ Normalizable(call.args) /\ Immediate(call.args)) =>
        /\ Len(dispatched) = Len(RegisteredListed)
        /\ \A i \in 1..Len(dispatched) :
              /\ dispatched[i].platform = RegisteredListed[i]
              /\ dispatched[i].post = dispatched[1].post
        /\ scheduled_posts = before

\* C4 witness: the first of two clients failed or raised and the second was called
C4_Witness ==
    /\ IsCreatePost
    /\ Immediate(call.args)
    /\ Len(dispatched) = 2
    /\ dispatched[1].platform # dispatched[2].platform
    /\ dispatched[1].outcome # "ok"

\* C5: a create_post given a schedule appends, for each listed registered
\* platform, exactly one ScheduledPost (that platform, the given time, pending),
\* calls no client, and acknowledges {success, scheduled, scheduled_time}; the
\* calendar grows by the number of registered platforms listed.
C5_ScheduleDefers ==
    (IsCreatePost /\ Normalizable(call.args) /\ Truthy(call.args.schedule)) =>
        /\ ~response.raised
        /\ dispatched = <<>>
        /\ SubSeq(scheduled_posts, 1, Len(before)) = before
        /\ Len(scheduled_posts) = Len(before) + Len(RegisteredListed)
        /\ \A i \in 1..Len(RegisteredListed) :
              /\ NewEntries[i].platform = RegisteredListed[i]
              /\ NewEntries[i].scheduled_time.hours = call.args.schedule.hours
              /\ NewEntries[i].scheduled_time.tzinfo
                   = (IF call.args.schedule.offset = "" THEN "None" ELSE "UTC")
              /\ NewEntries[i].status = "pending"
              /\ response.payload.results[RegisteredListed[i]]
                   = [success |-> TRUE, scheduled |-> TRUE,
                      scheduled_time |-> call.args.schedule]

\* C5 witness: a scheduled post for two registered platforms
C5_Witness ==
    /\ IsCreatePost
    /\ Truthy(call.args.schedule)
    /\ Len(RegisteredListed) = 2
    /\ RegisteredListed[1] # RegisteredListed[2]
    /\ Len(scheduled_posts) = Len(before) + 2

\* C6: every ScheduledPost of the calendar is pending, and no client was ever
\* called for a post that was deferred to the calendar.
C6_ScheduledStayPending ==
    \A k \in 1..Len(scheduled_posts) :
        /\ scheduled_posts[k].status = "pending"
        /\ scheduled_posts[k].post.id \notin invoked

\* C6 witness: an entry of an earlier invocation whose time has passed is still
\* pending while a later create_post called a client
C6_Witness ==
    /\ IsCreatePost
    /\ dispatched # <<>>
    /\ \E k \in 1..Len(before) :
          /\ scheduled_posts[k].scheduled_time.hours < call.now
          /\ scheduled_posts[k].status = "pending"

IdsDistinct ==
    \A j, k \in 1..Len(scheduled_posts) :
        j # k => scheduled_posts[j].id # scheduled_posts[k].id

\* an identifier that enters the calendar is a token never issued before
FreshIds ==
    \A k \in 1..Len(scheduled_posts') :
        (\A j \in 1..Len(scheduled_posts) : scheduled_posts[j].id # scheduled_posts'[k].id)
            => scheduled_posts'[k].id > uuids

\* C7: the identifiers of the calendar entries are pairwise distinct, also those
\* of the entries of one multi-platform create_post, and an entry never gets an
\* identifier issued before (so never that of a deleted entry).
C7_IdsNeverReused == [](IdsDistinct) /\ [][FreshIds]_vars

\* C7 witness: one create_post added two entries for one post, after an earlier
\* invocation had drawn an identifier
C7_Witness ==
    /\ IsCreatePost
    /\ Len(NewEntries) = 2
    /\ NewEntries[1].post.id > 1
    /\ NewEntries[1].post.id = NewEntries[2].post.id
    /\ NewEntries[1].id # NewEntries[2].id

\* the entries of calendar cal whose time lies in [start, end]
EntriesWithin(cal, date_range) ==
    IF ~date_range.given THEN cal
    ELSE SelectSeq(cal, LAMBDA sp :
            /\ date_range.start.hours <= sp.scheduled_time.hours
            /\ sp.scheduled_time.hours <= date_range.end.hours)

\* C8: manage_calendar view returns, for any calendar contents, exactly the
\* entries with start <= scheduled_time <= end when a date_range is given and all
\* entries otherwise, in calendar order, total_count being their number.
C8_ViewReturnsRange ==
    (IsView /\ (call.args.date_range.given =>
                   /\ call.args.date_range.start.kind = "datetime"
                   /\ call.args.date_range.end.kind = "datetime")) =>
        /\ ~response.raised
        /\ response.payload.total_count = Len(response.payload.scheduled_posts)
        /\ LET expected == EntriesWithin(before, call.args.date_range)
           IN  /\ Len(response.payload.scheduled_posts) = Len(expected)
               /\ \A i \in 1..Len(expected) :
                     response.payload.scheduled_posts[i].id = expected[i].id

\* C9: manage_calendar delete with ids I leaves the previous calendar without
\* exactly the entries whose identifier is in I, the others in their order; ids
\* that match no entry change nothing and raise nothing.
C9_DeleteRemovesExactly ==
    IsDelete =>
        /\ ~response.raised
        /\ scheduled_posts
             = SelectSeq(before, LAMBDA sp : sp.id \notin Elements(call.args.post_ids))

\* C9 witness: of two entries one is deleted, by a request that also names an
\* identifier of no entry
C9_Witness ==
    /\ IsDelete
    /\ Len(before) = 2
    /\ Len(scheduled_posts) = 1
    /\ scheduled_posts[1] = before[2]
    /\ \E i \in 1..Len(call.args.post_ids) :
          \A k \in 1..Len(before) : before[k].id # call.args.post_ids[i]

\* C10: manage_calendar delete returns deleted_count equal to the number of
\* identifiers requested, duplicates included, whatever was removed.
C10_DeletedCountIsRequested ==
    IsDelete =>
        /\ ~response.raised
        /\ response.payload.deleted_count = Len(call.args.post_ids)

\* C10 witness: an identifier requested twice removes one entry and counts two
C10_Witness ==
    /\ IsDelete
    /\ Len(call.args.post_ids) = 2
    /\ call.args.post_ids[1] = call.args.post_ids[2]
    /\ Len(before) - Len(scheduled_posts) = 1
    /\ response.payload.deleted_count = 2

\* the invocation just made defers at least one post: a create_post with a
\* schedule in force, alone or among the posts of a schedule_posts
Defers(args, now) == Truthy(EffectiveSchedule(args, now))

DeferringCall(c) ==
    \/ c.tool = "create_post" /\ Defers(c.args, c.now)
    \/ c.tool = "schedule_posts"
         /\ \E i \in 1..Len(c.args.posts) : Defers(c.args.posts[i], c.now)

\* the step appends to the calendar
Appends ==
    /\ Len(scheduled_posts') > Len(scheduled_posts)
    /\ SubSeq(scheduled_posts', 1, Len(scheduled_posts)) = scheduled_posts

\* the step removes entries from the calendar and keeps the others in order
Removes ==
    /\ Len(scheduled_posts') < Len(scheduled_posts)
    /\ scheduled_posts'
         = SelectSeq(scheduled_posts, LAMBDA sp : sp \in Elements(scheduled_posts'))

\* a step that changes the calendar is an append by a deferring create_post or
\* a removal by manage_calendar delete
CalendarFrame ==
    scheduled_posts' # scheduled_posts =>
        \/ DeferringCall(call') /\ Appends
        \/ call'.tool = "manage_calendar" /\ call'.args.action = "delete" /\ Removes

\* reschedule answers with its not-implemented acknowledgment
RescheduleAcknowledged ==
    (call.tool = "manage_calendar" /\ call.args.action = "reschedule") =>
        /\ ~response.raised
        /\ response.payload = [action |-> "reschedule",
                                message |-> "Rescheduling functionality to be implemented"]

\* C11: the calendar is changed only by a create_post that defers (an append)
\* and by manage_calendar delete (a removal); view, update, reschedule,
\* get_analytics, get_trending, generate_hashtags, optimize_media and an
\* immediate create_post leave it as it was, and reschedule only returns its
\* not-implemented acknowledgment.
C11_CalendarChangedOnlyByScheduleAndDelete ==
    [](RescheduleAcknowledged) /\ [][CalendarFrame]_vars

\* C11 witness: reschedule was invoked on a calendar with an entry, which is
\* still there
C11_Witness ==
    /\ call.tool = "manage_calendar"
    /\ call.args.action = "reschedule"
    /\ Len(before) > 0
    /\ scheduled_posts = before

\* the payloads create_post can return for the request args made at time now;
\* a payload depends neither on the calendar nor on the identifiers drawn
CreatePostPayloads(args, now) ==
    {end.response.payload : end \in {e \in CreatePost(<<>>, 0, args, now) : ~e.response.raised}}

C13_SpacingDefersEveryPost ==
    (call.tool = "schedule_posts" /\ call.args.optimize_spacing /\ Len(call.args.posts) > 1) =>
        /\ ~response.raised
        /\ response.payload.scheduled_count = Len(call.args.posts)
        /\ dispatched = <<>>
        /\ \A i \in 1..Len(call.args.posts) :
              \A p \in DOMAIN response.payload.results[i].results :
                  p \in platforms =>
                      /\ response.payload.results[i].results[p].scheduled
                      /\ response.payload.results[i].results[p].scheduled_time.hours
                           = call.now + 4 * (i - 1)

\* the text of the request is longer than the character limit of a listed platform
OverLimit(args) ==
    \E i \in 1..Len(args.platforms) :
        /\ args.platforms[i] \in DOMAIN char_limits
        /\ Chars(args.content.text) > char_limits[args.platforms[i]]

\* C14: a create_post whose text exceeds the character limit of a listed
\* platform is answered with a structured error, no client having been called
\* and no calendar entry appended.
C14_OverLimitRejected ==
    (IsCreatePost /\ OverLimit(call.args)) =>
        /\ "error" \in DOMAIN handle_call_tool(response)
        /\ dispatched = <<>>
        /\ scheduled_posts = before

\* the character limits as the specification states them
StatedLimit(platform) ==
    CASE platform = "twitter" -> 280
      [] platform = "instagram" -> 2200
      [] platform = "linkedin" -> 3000
      [] platform = "facebook" -> 63206
      [] OTHER -> 5000

\* C15: validate_post_content reports invalid, with a message naming the
\* character limit, exactly when the content is longer than the platform's
\* limit (a content of exactly the limit is valid); valid instagram content
\* without a #tag gets a warning, every other valid content no message.
C15_ValidAtLimit ==
    call.tool = "validate_post_content" =>
        LET content == call.args.content
            platform == call.args.platform
            valid == response.payload[1]
            message == response.payload[2]
        IN  /\ ~response.raised
            /\ valid = (Chars(content) <= StatedLimit(platform))
            /\ ~valid => /\ "character limit" \in Elements(message.words)
                          /\ StatedLimit(platform) \in Elements(message.numbers)
            /\ (valid /\ platform = "instagram" /\ ~HasHashtag(content))
                  => message.words # <<>>
            /\ (valid /\ ~(platform = "instagram" /\ ~HasHashtag(content)))
                  => message = NoMessage

\* C15 witness: a tweet of exactly 280 characters is valid
C15_Witness ==
    /\ call.tool = "validate_post_content"
    /\ call.args.platform = "twitter"
    /\ Chars(call.args.content) = 280
    /\ response.payload = << TRUE, NoMessage >>

\* the #tags literally present in a text
LiteralTags(content) == Elements(ExistingHashtags(content))

\* C16: generate_hashtags returns at most max_count entries, pairwise distinct
\* (case-sensitive), and no frequency-derived tag stands before a tag literally
\* present in the text.
C16_BoundedDistinctLiteralFirst ==
    call.tool = "generate_hashtags()" =>
        LET r == response.payload
        IN  /\ ~response.raised
            /\ Len(r) <= call.args.max_count
            /\ \A i, j \in 1..Len(r) : i # j => r[i] # r[j]
            /\ \A i, j \in 1..Len(r) :
                  (i < j /\ r[j] \in LiteralTags(call.args.content))
                      => r[i] \in LiteralTags(call.args.content)

\* C16 witness: a text with "#Launch" and the word "launch" gives both, the
\* literal one first, under a max_count that cuts the list
C16_Witness ==
    /\ call.tool = "generate_hashtags()"
    /\ Len(response.payload) = call.args.max_count
    /\ Len(response.payload) >= 2
    /\ response.payload[1] = "Launch"
    /\ \E k \in 2..Len(response.payload) : response.payload[k] = "launch"
    /\ Len(Dedup(ExistingHashtags(call.args.content) \o LongWords(call.args.content)))
         > call.args.max_count

\* the cap on the result as the specification states it
StatedCap(platform, max_count) ==
    CASE platform = "twitter" -> Min(max_count, 3)
      [] platform = "linkedin" -> Min(max_count, 5)
      [] platform = "instagram" -> Min(max_count, 30)
      [] OTHER -> max_count

\* C17: the result is the literal #tags followed by lower-cased words of four
\* letters or more in descending frequency, cut at the platform's cap (3 for
\* twitter, 5 for linkedin, 30 for instagram, max_count otherwise), and on every
\* platform the most frequent word is appended when it is not a literal tag and
\* the cap leaves room for it.
C17_FrequencyWordsAppended ==
    call.tool = "generate_hashtags()" =>
        LET r == response.payload
            content == call.args.content
            literal == Dedup(ExistingHashtags(content))
            words == LongWords(content)
            cap == StatedCap(call.args.platform, call.args.max_count)
            kept == Min(Len(literal), cap)
        IN  /\ Len(r) <= cap
            /\ SubSeq(r, 1, Min(Len(r), kept)) = Take(literal, cap)
            /\ \A k \in (kept + 1)..Len(r) :
                  /\ r[k] \in Elements(words)
                  /\ k < Len(r) => Occurrences(words, r[k]) >= Occurrences(words, r[k + 1])
            /\ (Len(literal) < cap /\ words # <<>>
                   /\ MostCommon(words, Dedup(words))[1] \notin Elements(literal))
                  => Len(r) > Len(literal)

\* C18: a create_post without hashtags (or with an empty list) gives the post and
\* the response exactly what generate_hashtags returns for the text under the
\* convention of the first listed platform (twitter's when none is listed), so
\* "hi" yields no hashtag; a supplied non-empty list is used unchanged.
C18_HashtagsGeneratedWhenAbsent ==
    (IsCreatePost /\ ~response.raised) =>
        LET content == call.args.content
            first == IF call.args.platforms # <<>> THEN call.args.platforms[1] ELSE "twitter"
            expected == IF content.hashtags = <<>>
                        THEN generate_hashtags(content.text, first, DefaultMaxCount)
                        ELSE content.hashtags
        IN  /\ response.payload.content.hashtags = expected
            /\ \A k \in 1..Len(NewEntries) : NewEntries[k].post.hashtags = expected
            /\ (content.text = TextHi /\ content.hashtags = <<>>)
                  => response.payload.content.hashtags = <<>>

\* C18 witness: no hashtags supplied, linkedin listed before twitter: the tags
\* are linkedin's, which twitter's convention would have cut
C18_Witness ==
    /\ IsCreatePost
    /\ ~response.raised
    /\ call.args.content = LaunchContent
    /\ call.args.platforms = <<"linkedin", "twitter">>
    /\ response.payload.content.hashtags = <<"Launch", "product", "launch", "news">>
    /\ generate_hashtags(TextLaunch, "twitter", DefaultMaxCount)
         # response.payload.content.hashtags

\* the new calendar entries are one per listed registered platform, in list
\* order, all at time t, and no client was called
DeferredAt(t) ==
    /\ dispatched = <<>>
    /\ Len(NewEntries) = Len(RegisteredListed)
    /\ \A i \in 1..Len(NewEntries) :
          /\ NewEntries[i].platform = RegisteredListed[i]
          /\ NewEntries[i].scheduled_time = t
          /\ response.payload.results[RegisteredListed[i]].scheduled

\* C19: with optimize_timing and no explicit schedule the post is deferred, for
\* every listed registered platform, to the one timestamp the single-slot
\* heuristic picks, and no client is called; an explicit schedule is used as
\* given whatever optimize_timing says; without either the post is dispatched
\* at once and the calendar is left alone.
C19_OptimizeTimingDefers ==
    (IsCreatePost /\ Normalizable(call.args)) =>
        /\ ~response.raised
        /\ IF Truthy(call.args.schedule)
           THEN DeferredAt(fromisoformat(call.args.schedule))
           ELSE IF call.args.optimize_timing
           THEN /\ DeferredAt(find_optimal_posting_time(call.args.platforms, call.now))
                /\ \A i \in 1..Len(NewEntries) :
                      /\ NewEntries[i].scheduled_time.tzinfo = "UTC"
                      /\ NewEntries[i].scheduled_time.hours > call.now
           ELSE /\ Len(dispatched) = Len(RegisteredListed)
                /\ scheduled_posts = before

\* C19 witness: optimize_timing without a schedule deferred one post for two
\* registered platforms to the same later time
C19_Witness ==
    /\ IsCreatePost
    /\ call.args.optimize_timing
    /\ ~Truthy(call.args.schedule)
    /\ Len(NewEntries) = 2
    /\ NewEntries[1].platform # NewEntries[2].platform
    /\ NewEntries[1].scheduled_time = NewEntries[2].scheduled_time
    /\ NewEntries[1].scheduled_time.hours > call.now
    /\ dispatched = <<>>

\* the union of the best-hour lists of the known platforms of a list
BestHours(platform_list) ==
    UNION {best_times[p] : p \in Elements(platform_list) \cap DOMAIN best_times}

\* C20: for a platform list with a known platform, find_optimal_posting_time
\* returns, at minute 0, the smallest best hour strictly greater than the
\* current hour on the current day, otherwise the smallest best hour on the next
\* day; the result is strictly later than the time of the call and at most 24
\* hours after it.
C20_NextBestHour ==
    (call.tool = "find_optimal_posting_time" /\ BestHours(call.args.platforms) # {}) =>
        LET hours == BestHours(call.args.platforms)
            hour == call.now % 24
            today == call.now - hour
            later == {t \in hours : t > hour}
            t == response.payload.hours
        IN  /\ response.payload.tzinfo = "UTC"
            /\ IF later # {}
               THEN /\ t - today \in later
                    /\ \A u \in later : t - today <= u
               ELSE /\ t - (today + 24) \in hours
                    /\ \A u \in hours : t - (today + 24) <= u
            /\ t * 60 > call.now * 60 + call.minute
            /\ t * 60 <= call.now * 60 + call.minute + 24 * 60

\* C20 witness: called at 21:59 for linkedin and twitter, the answer is 07:00
\* of the next day
C20_Witness ==
    /\ call.tool = "find_optimal_posting_time"
    /\ call.args.platforms = <<"twitter", "linkedin">>
    /\ call.now = 21
    /\ call.minute = 59
    /\ response.payload = DateTime(31, "UTC")

----------------------------------------------------------------------------
(* schedule_content_calendar *)

IsCalendarCall == call.tool = "schedule_content_calendar"

\* the time given to the k-th post of the output, in hours, its hour of the day
\* and its day
ScheduledHours(k) == fromisoformat(response.payload[k].scheduled_time).hours
HourOf(k) == ScheduledHours(k) % 24
DayOf(k) == ScheduledHours(k) \div 24

PairwiseDistinctTimes ==
    \A j, k \in 1..Len(response.payload) :
        j # k => response.payload[j].scheduled_time # response.payload[k].scheduled_time

InInputOrder ==
    /\ Len(response.payload) = Len(call.posts)
    /\ \A k \in 1..Len(call.posts) : response.payload[k].post = call.posts[k]

\* C21: even_spacing gives post i of N (i counted from 0) the hour
\* 9 + floor(i*11/N), an hour in [9,20]; up to 11 posts get pairwise distinct
\* timestamps; the output has one entry per input post, in input order.
C21_EvenSpacingHours ==
    IsCalendarCall /\ call.strategy = "even_spacing" =>
        LET n == Len(call.posts)
        IN  /\ InInputOrder
            /\ \A k \in 1..n :
                  /\ HourOf(k) = 9 + ((k - 1) * 11) \div n
                  /\ HourOf(k) \in 9..20
            /\ n \in 1..11 => PairwiseDistinctTimes

\* seven posts, some of them today and some moved to tomorrow
C21_Witness ==
    /\ IsCalendarCall /\ call.strategy = "even_spacing"
    /\ Len(response.payload) = 7
    /\ \E j, k \in 1..7 : DayOf(j) # DayOf(k)

\* C22: peak_times gives post i the hour {9,12,17,19}[i mod 4] and adds
\* floor(i/4) whole days to today's or tomorrow's slot; the 5th post is exactly
\* one day after the 1st; all timestamps are pairwise distinct.
C22_PeakTimesSlots ==
    IsCalendarCall /\ call.strategy = "peak_times" =>
        LET n == Len(call.posts)
            today == call.now \div (24 * 60)
        IN  /\ InInputOrder
            /\ \A k \in 1..n :
                  /\ HourOf(k) = peak_times[((k - 1) % 4) + 1]
                  /\ DayOf(k) - (k - 1) \div 4 \in {today, today + 1}
            /\ n >= 5 => ScheduledHours(5) = ScheduledHours(1) + 24
            /\ PairwiseDistinctTimes

\* C23: no strategy assigns a time earlier than the invocation time; a slot
\* whose hour has passed on the day of the invocation is on a later day.
C23_NeverInThePast ==
    IsCalendarCall =>
        \A k \in 1..Len(response.payload) :
            /\ ScheduledHours(k) * 60 >= call.now
            /\ HourOf(k) * 60 < call.now % (24 * 60)
                 => DayOf(k) > call.now \div (24 * 60)

\* a slot of each strategy whose hour had passed and that is on the next day
C23_Witness ==
    /\ IsCalendarCall /\ call.strategy = "peak_times"
    /\ Len(response.payload) >= 2
    /\ HourOf(1) * 60 < call.now % (24 * 60)
    /\ DayOf(1) = call.now \div (24 * 60) + 1
    /\ DayOf(2) = call.now \div (24 * 60)

----------------------------------------------------------------------------
(* get_analytics, get_trending, optimize_media *)

IsGetAnalytics == call.tool = "get_analytics"
IsGetTrending == call.tool = "get_trending"
IsOptimizeMedia == call.tool = "optimize_media"

\* the sum, over the platforms of `names` that returned analytics, of the
\* count they reported under `key`
RECURSIVE Reported(_, _, _)
Reported(analytics_data, key, names) ==
    IF names = {} THEN 0
    ELSE LET name == CHOOSE x \in names : TRUE
             data == analytics_data[name]
         IN  (IF "metrics" \in DOMAIN data THEN data.metrics[key] ELSE 0)
               + Reported(analytics_data, key, names \ {name})

\* C24: the aggregate of get_analytics holds the sums of the impressions and
\* of the engagement the requested platforms reported, and their quotient as
\* engagement_rate, 0 when there are no impressions.
C24_AggregateSumsReported ==
    IsGetAnalytics =>
        LET data == response.payload.platforms
            impressions == Reported(data, "impressions", DOMAIN data)
            engagement == Reported(data, "engagement", DOMAIN data)
            aggregated == response.payload.aggregated
        IN  /\ aggregated.total_impressions = impressions
            /\ aggregated.total_engagement = engagement
            /\ aggregated.engagement_rate =
                  IF impressions > 0 THEN <<engagement, impressions>> ELSE <<0, 1>>

\* the entry optimize_media gives a platform: the optimized path, or the error
\* of the media operation with success false
MediaEntry(args, platform) ==
    IF args.media_type = "image"
    THEN IF optimize_image_raises(args.media, <<platform>>)
         THEN [success |-> FALSE, error |-> ImageError]
         ELSE [path |-> <<"stem", "_optimized.jpg">>, success |-> TRUE]
    ELSE IF optimize_video_raises(args.media, <<platform>>)
         THEN [success |-> FALSE, error |-> VideoError]
         ELSE [path |-> <<"stem", "_optimized.mp4">>, success |-> TRUE]

\* the map a per-platform tool returns
PlatformMap ==
    IF IsOptimizeMedia THEN response.payload.optimized ELSE response.payload.platforms

AnalyticsFailureThenData ==
    /\ IsGetAnalytics
    /\ call.args.platforms = <<"twitter", "linkedin">>
    /\ response.payload.platforms["twitter"] = [error |-> ClientException]
    /\ response.payload.platforms["linkedin"] = AnalyticsDict("linkedin")

----------------------------------------------------------------------------
(* initialize *)

\* the environment variables the spec requires for each platform
RequiredVariables ==
    [p \in KnownPlatforms |->
        CASE p = "twitter" -> TwitterKeys
          [] p = "linkedin" -> {"LINKEDIN_ACCESS_TOKEN"}
          [] p = "instagram" -> {"INSTAGRAM_ACCESS_TOKEN", "INSTAGRAM_BUSINESS_ID"}
          [] p = "facebook" -> {"FACEBOOK_ACCESS_TOKEN", "FACEBOOK_PAGE_ID"}]

\* C26: after initialize a platform is registered only if all of its required
\* environment variables are present.
C26_RegisteredOnlyWithAllVariables ==
    call.tool = "initialize" =>
        \A p \in platforms : RequiredVariables[p] \subseteq call.env

----------------------------------------------------------------------------
(* handle_call_tool *)

IsUnknownTool == call.tool \in UnknownTools

\* what handle_call_tool hands to the caller is the handler's payload or one
\* structured error naming the tool
StructuredResponse ==
    ~Idle =>
        LET out == handle_call_tool(response)
        IN  /\ response.tool = call.tool
            /\ response.raised => out = [error |-> response.error, tool |-> call.tool]
            /\ ~response.raised =>
                  \/ out = response.payload
                  \/ DOMAIN out = {"error", "tool"} /\ out.tool = call.tool
            /\ IsUnknownTool =>
                  /\ out = [error |-> <<"Unknown tool:", call.tool>>, tool |-> call.tool]
                  /\ scheduled_posts = before
                  /\ dispatched = <<>>

\* a step that takes an invocation under an unknown name leaves the server's
\* platforms, calendar, tokens and record of client calls as they were
UnknownToolFrame ==
    call'.tool \in UnknownTools => UNCHANGED <<platforms, scheduled_posts, uuids, invoked>>

\* C27: handle_call_tool never raises: an unknown tool name, and any exception
\* escaping a handler, yields the single structured response {error, tool};
\* an unknown tool name changes neither the calendar nor the registered
\* platforms and invokes no capability.
C27_StructuredErrorNeverRaises ==
    [](StructuredResponse) /\ [][UnknownToolFrame]_vars

\* an unknown tool name sent to a server with clients and a calendar entry
C27_Witness ==
    /\ IsUnknownTool
    /\ platforms # {}
    /\ scheduled_posts # <<>>
    /\ handle_call_tool(response) = [error |-> <<"Unknown tool:", call.tool>>,
                                     tool |-> call.tool]

\* `out` holds, for every platform whose client returned a PostResult, that
\* PostResult's success flag, remote identifier, URL and error, and the summary
\* of the content
CarriesPostResults(out) ==
    /\ "results" \in DOMAIN out
    /\ \A i \in 1..Len(dispatched) :
          LET p == dispatched[i].platform
              returned == client_create_post(p, dispatched[i].post, LastCall(p).outcome,
                                             call.now)
          IN  LastCall(p).outcome # "raise" =>
                 /\ p \in DOMAIN out.results
                 /\ out.results[p].success = returned.success
                 /\ out.results[p].post_id = returned.post_id
                 /\ out.results[p].url = returned.url
                 /\ out.results[p].error = returned.error
    /\ out.content = [text |-> call.args.content.text,
                      hashtags |-> PostHashtags(call.args.content, call.args.platforms),
                      media_count |-> Len(MediaAssets(call.args.content.media))]

\* C28: the response delivered for an immediate create_post holds, for each
\* registered platform dispatched, the PostResult its capability returned
\* (success flag, remote identifier, URL, error), and the content summary.
C28_PostResultDeliveredVerbatim ==
    IsCreatePost /\ Normalizable(call.args) /\ Immediate(call.args) =>
        CarriesPostResults(handle_call_tool(response))

\* the value create_post returns to handle_call_tool does hold them
ReturnedPostResults ==
    IsCreatePost /\ Normalizable(call.args) /\ Immediate(call.args) =>
        CarriesPostResults(response.payload)

----------------------------------------------------------------------------
(* create_post: media *)

\* normalizing some media entry of the request fails
MediaFails ==
    \E i \in 1..Len(call.args.content.media) :
        LET m == call.args.content.media[i]
        IN  \/ m.type = "image" /\ optimize_image_raises(m, call.args.platforms)
            \/ m.type = "video" /\ optimize_video_raises(m, call.args.platforms)

\* C30: if normalizing any media entry of a create_post fails, create_post
\* raises a labeled media error, which handle_call_tool reports as one
\* structured error, and for that invocation no client has been called and no
\* calendar entry has been appended.
C30_MediaNormalizedBeforePlatforms ==
    IsCreatePost /\ MediaFails =>
        /\ response.raised
        /\ response.error \in {ImageError, VideoError}
        /\ handle_call_tool(response) = [error |-> response.error, tool |-> "create_post"]
        /\ dispatched = <<>>
        /\ scheduled_posts = before

\* a scheduled request for two registered platforms whose second media entry
\* fails after the first was normalized, on a server whose calendar is not empty
C30_Witness ==
    /\ IsCreatePost /\ MediaFails
    /\ Len(call.args.content.media) = 2
    /\ ~optimize_image_raises(call.args.content.media[1], call.args.platforms)
    /\ Truthy(call.args.schedule)
    /\ Elements(call.args.platforms) \subseteq platforms
    /\ Len(call.args.platforms) = 2
    /\ before # <<>>
    /\ response.error = VideoError

----------------------------------------------------------------------------
(* optimize_image *)

IsOptimizeImage == call.tool = "optimize_image"
Encoding == IsOptimizeImage /\ response = NoResponse
Optimized == IsOptimizeImage /\ response # NoResponse /\ ~response.raised

\* at every point of the loop the quality is a multiple of 5 in [20,85] and at
\* most 14 encodings have been made; the loop goes on only after a file above
\* the limit written at a quality above 20, and returns only with a file within
\* the limit or at quality 20
LoopBounded ==
    IsOptimizeImage =>
        /\ call.quality \in {20 + 5 * k : k \in 0..13}
        /\ call.encodings <= 14
        /\ Encoding /\ call.encodings > 0 =>
              /\ call.file_size_mb > call.limit
              /\ call.encodings = (85 - call.quality) \div 5
        /\ Optimized =>
              /\ call.file_size_mb <= call.limit \/ call.quality = 20
              /\ call.encodings = (85 - call.quality) \div 5 + 1
              /\ call.limit = max_size_mb(call.platforms)

\* C29: the re-encoding loop of optimize_image always terminates: from quality
\* 85, lowered by 5 per iteration, it stops as soon as the file is within the
\* smallest max_size_mb of the target platforms or the quality has reached 20,
\* after at most 14 encodings, at a quality that is a multiple of 5 in [20,85].
C29_EncodingLoopTerminates ==
    [](LoopBounded) /\ (Encoding ~> ~Encoding)

\* the loop ran down to the floor: 14 encodings, the last one at quality 20
\* still above the limit
C29_Witness ==
    /\ Optimized
    /\ call.encodings = 14
    /\ call.quality = 20
    /\ call.file_size_mb > call.limit

====
